---- MODULE Spec2Model ----
(***************************************************************************)
(* Model of the smart-transcriber recording pipeline:                      *)
(*   - the recorder component (timers, voice-gated segmentation, media     *)
(*     recorder stop/restart, dataavailable handling),                     *)
(*   - the WhisperAPI request queue with its retry policy,                 *)
(*   - the display store of transcript segments,                           *)
(*   - the SegmentManager / AudioRecorder service pair.                    *)
(* Times are milliseconds as returned by Date.now(); confidence values are *)
(* hundredths (0.3 is 30).                                                 *)
(***************************************************************************)
EXTENDS Integers, Sequences, FiniteSets, TLC

(***************************************************************************)
(* Program constants                                                       *)
(***************************************************************************)
DetectionPeriod == 10
SecondPeriod == 1000
RestartDelay == 100
MinBlobSize == 1000
MIN_AUDIO_LEVEL == 20
MinConfidence == 30
NoTimer == -1
Epoch == 50000

(***************************************************************************)
(* Bounds of the exploration                                               *)
(***************************************************************************)
MaxTime == 2300
MaxFlips == 2
MaxToggles == 2
InputGrain == 250

VARIABLES
  now,                  \* Date.now()
  settings,             \* the settings prop
  bound,                \* exploration budget of the run
  mediaRecorder,        \* "null", "inactive" or "recording"
  internalIsRecording,
  isInitializing,
  initializationError,
  whisperAPI,           \* TRUE once new WhisperAPI(...) has run
  voiceDetector,        \* TRUE once setupAudioAnalysis created the detector
  recordingTimer,       \* next deadline of the per-second interval, or NoTimer
  voiceDetectionTimer,  \* next deadline of the detection interval, or NoTimer
  restartTimers,        \* deadlines of pending restart timeouts
  pendingData,          \* dataavailable events queued by MediaRecorder.stop()
  recordingChunks,      \* sizes of the buffered chunks
  isVoiceActive,
  wasVoiceActive,
  activeRecordingTime,
  totalRecordingTime,
  segmentRecordingTime,
  isSegmentReady,
  lastVoiceEndTime,
  emitted,              \* number of uploads decided by handleSmartSegmentation
  flips,                \* number of voice state changes so far
  lastFlipTime,         \* instant of the last voice state change
  toggles,              \* number of toggleRecording calls so far
  requests,             \* every request ever passed to transcribe(), by id
  requestQueue,         \* WhisperAPI.requestQueue (request ids)
  isProcessing,         \* WhisperAPI.isProcessing
  loops,                \* running processQueue invocations
  startOrder,           \* ids in the order their first fetch was issued
  transcriptSegments,   \* display store of the app component
  errorLog,             \* onError calls: a segment id, or 0 for a capture error
  segments,             \* SegmentManager.segments (id -> transcript segment)
  isInitialized,        \* SegmentManager.isInitialized
  isRecording,          \* AudioRecorder.isRecording
  segmentTimers,        \* next deadlines of the AudioRecorder segment intervals
  vad,                  \* the VoiceActivityDetector object (its fields)
  subtraction,          \* the SpectralSubtraction object (its fields)
  processor,            \* the SignalProcessor object (its own fields)
  applied,              \* a store alone: its handleNewSegment calls, or the
                        \* keys of the manager's Map in insertion order
  pendingStarts,        \* startRecording calls awaiting initializeRecording
                        \* besides the one isInitializing stands for
  orphanTimers,         \* intervals still registered whose handle has been
                        \* overwritten, per timer variable
  disposed              \* SegmentManager.dispose() has returned

sessionVars == <<mediaRecorder, internalIsRecording, isInitializing,
                 initializationError, whisperAPI, voiceDetector>>
timerVars == <<recordingTimer, voiceDetectionTimer, restartTimers>>
mediaVars == <<pendingData, recordingChunks>>
segVars == <<isVoiceActive, wasVoiceActive, activeRecordingTime,
             totalRecordingTime, segmentRecordingTime, isSegmentReady,
             lastVoiceEndTime>>
ghostVars == <<emitted, flips, lastFlipTime, toggles>>
apiVars == <<requests, requestQueue, isProcessing, loops, startOrder>>
storeVars == <<transcriptSegments, errorLog>>
managerVars == <<segments, isInitialized, isRecording, segmentTimers>>
dspVars == <<vad, subtraction, processor, applied>>
callVars == <<pendingStarts, orphanTimers, disposed>>

vars == <<now, settings, bound, sessionVars, timerVars, mediaVars, segVars,
          ghostVars, apiVars, storeVars, managerVars, dspVars, callVars>>


(***************************************************************************)
(* Strings are sequences of one-character strings.                         *)
(***************************************************************************)
MsgFailedToFetch ==
  <<"F", "a", "i", "l", "e", "d", " ", "t", "o", " ", "f", "e", "t", "c", "h">>
MsgNetworkError ==
  <<"N", "e", "t", "w", "o", "r", "k", "E", "r", "r", "o", "r">>
Msg503 ==
  <<"O", "p", "e", "n", "A", "I", " ", "A", "P", "I", " ", "e", "r", "r",
    "o", "r", ":", " ", "5", "0", "3", " ", "-", " ", "b", "u", "s", "y">>
Msg401 ==
  <<"O", "p", "e", "n", "A", "I", " ", "A", "P", "I", " ", "e", "r", "r",
    "o", "r", ":", " ", "4", "0", "1", " ", "-", " ", "b", "a", "d", " ",
    "k", "e", "y">>
Msg429 ==
  <<"O", "p", "e", "n", "A", "I", " ", "A", "P", "I", " ", "e", "r", "r",
    "o", "r", ":", " ", "4", "2", "9", " ", "-", " ", "R", "a", "t", "e",
    " ", "l", "i", "m", "i", "t">>
ErrorMessages == {MsgFailedToFetch, MsgNetworkError, Msg503, Msg401, Msg429}

ToLowerChar(c) ==
  CASE c = "A" -> "a"
    [] c = "E" -> "e"
    [] c = "F" -> "f"
    [] c = "I" -> "i"
    [] c = "N" -> "n"
    [] c = "O" -> "o"
    [] c = "P" -> "p"
    [] c = "R" -> "r"
    [] OTHER -> c
ToLowerCase(s) == [i \in 1..Len(s) |-> ToLowerChar(s[i])]
Includes(s, p) ==
  \E i \in 1..(Len(s) - Len(p) + 1) : SubSeq(s, i, i + Len(p) - 1) = p

PatNetwork == <<"n", "e", "t", "w", "o", "r", "k">>
PatTimeout == <<"t", "i", "m", "e", "o", "u", "t">>
Pat502 == <<"5", "0", "2">>
Pat503 == <<"5", "0", "3">>
Pat504 == <<"5", "0", "4">>
PatRateLimit == <<"r", "a", "t", "e", " ", "l", "i", "m", "i", "t">>

isRetryableError(error) ==
  LET message == ToLowerCase(error)
  IN  \/ Includes(message, PatNetwork)
      \/ Includes(message, PatTimeout)
      \/ Includes(message, Pat502)
      \/ Includes(message, Pat503)
      \/ Includes(message, Pat504)
      \/ Includes(message, PatRateLimit)


(***************************************************************************)
(* Texts returned by the transcription service                             *)
(***************************************************************************)
TextEmpty == <<>>
TextBlank == <<" ">>
TextHi == <<"h", "i">>
TextPadded == <<" ", "h", "i", " ">>
ResponseTexts == {TextEmpty, TextBlank, TextHi, TextPadded}
FailedMarker ==
  <<"[", "T", "r", "a", "n", "s", "c", "r", "i", "p", "t", "i", "o", "n",
    " ", "f", "a", "i", "l", "e", "d", "]">>

RECURSIVE TrimStart(_)
TrimStart(s) ==
  IF s # <<>> /\ Head(s) = " " THEN TrimStart(Tail(s)) ELSE s
RECURSIVE TrimEnd(_)
TrimEnd(s) ==
  IF s # <<>> /\ s[Len(s)] = " " THEN TrimEnd(SubSeq(s, 1, Len(s) - 1)) ELSE s
Trim(s) == TrimEnd(TrimStart(s))

RECURSIVE Sum(_)
Sum(s) == IF s = <<>> THEN 0 ELSE Head(s) + Sum(Tail(s))

RECURSIVE Pow2(_)
Pow2(n) == IF n = 0 THEN 1 ELSE 2 * Pow2(n - 1)

(***************************************************************************)
(* Display store: handleNewSegment of the app component                    *)
(***************************************************************************)
StaleAge == 30000

\* faulty variant: the lookup never finds the segment
FindIndexNone(segs, id) == 0

\* transcriptSegments.findIndex(s => s.id === segment.id), 1-based, 0 for -1
FindIndex(segs, id) ==
  IF \E i \in 1..Len(segs) : segs[i].id = id
  THEN CHOOSE i \in 1..Len(segs) :
         segs[i].id = id /\ \A j \in 1..(i - 1) : segs[j].id # id
  ELSE 0

\* faulty variant: nothing is filtered out
CleanStaleNone(segs, t) == segs

\* the filter that drops processing segments older than the staleness window
RECURSIVE CleanStale(_, _)
CleanStale(segs, t) ==
  IF segs = <<>> THEN <<>>
  ELSE LET s == Head(segs)
           keep == IF s.isProcessing THEN t - s.timestamp < StaleAge ELSE TRUE
       IN  IF keep THEN <<s>> \o CleanStale(Tail(segs), t)
           ELSE CleanStale(Tail(segs), t)

\* faulty variant: the segment is added without looking for its id
handleNewSegmentAppend(segs, segment, t) ==
  CleanStale(Append(segs, segment), t)

handleNewSegment(segs, segment, t) ==
  LET existingIndex == FindIndex(segs, segment.id)
      updated == IF existingIndex > 0
                 THEN [segs EXCEPT ![existingIndex] = segment]
                 ELSE Append(segs, segment)
  IN  CleanStale(updated, t)

(***************************************************************************)
(* WhisperAPI: request queue, sequential processing, retry policy          *)
(***************************************************************************)
maxRetries == 3
retryDelay == 1000
QueueGap == 200

\* sentToggle / settledToggle: the number of toggleRecording calls made
\* when the request was passed to transcribe() and when its promise settled;
\* endedAt: the instant its last fetch returned, kept where the delays of
\* the queue are timed
\* where processQueue stands when transcribe() pushes a request (recorded
\* where the stages are followed)
LoopStage ==
  IF bound.script # "stages" \/ loops = <<>> THEN "idle"
  ELSE IF loops[Len(loops)].pc = "gap" /\ requestQueue = <<>>
  THEN "trailing"
  ELSE loops[Len(loops)].pc

NewRequest(owner, blob, t) ==
  [owner |-> owner, blob |-> blob, timestamp |-> t, status |-> "queued",
   attempts |-> 0, delays |-> <<>>, completions |-> 0, error |-> <<>>,
   sentToggle |-> toggles, settledToggle |-> -1, endedAt |-> -1,
   pushedAt |-> LoopStage]

\* the delays of the queue are timed against the clock, or (elsewhere) may
\* elapse at any instant
Timed == bound.script = "timed"

\* makeTranscriptionRequest up to its first await: the fetch is issued
IssueFetch(reqs, id) == [reqs EXCEPT ![id].status = "active",
                                     ![id].attempts = @ + 1]

\* faulty variant: processQueue without the isProcessing guard
processQueueStartsUnguarded(q) == Len(q) > 0

\* processQueue called with queue q: TRUE when a new loop starts
processQueueStarts(q) == ~isProcessing /\ Len(q) > 0

\* faulty variant: every failure is retried while retries are left
ShouldRetryAnyError(retryCount, error) == retryCount < maxRetries

\* the retry decision in the catch block of makeTranscriptionRequest
ShouldRetry(retryCount, error) ==
  retryCount < maxRetries /\ isRetryableError(error)

BackoffDelay(retryCount) == retryDelay * Pow2(retryCount)

InFlight == {i \in 1..Len(loops) : loops[i].pc \in {"fetch", "backoff"}}

RemoveAt(s, i) == SubSeq(s, 1, i - 1) \o SubSeq(s, i + 1, Len(s))


\* WhisperAPI.transcribe: push the request, then processQueue() up to its
\* first await (a new loop issues the fetch of the head request at once)
Transcribe(owner, blob) ==
  LET id == Len(requests) + 1
      reqs1 == Append(requests, NewRequest(owner, blob, now))
      q1 == Append(requestQueue, id)
  IN  IF processQueueStarts(q1)
      THEN /\ isProcessing' = TRUE
           /\ requestQueue' = Tail(q1)
           /\ loops' = Append(loops, [req |-> Head(q1), pc |-> "fetch",
                                      retryCount |-> 0])
           /\ requests' = IssueFetch(reqs1, Head(q1))
           /\ startOrder' = Append(startOrder, Head(q1))
      ELSE /\ requestQueue' = q1
           /\ requests' = reqs1
           /\ UNCHANGED <<isProcessing, loops, startOrder>>

(***************************************************************************)
(* Continuations of the callers awaiting transcribe()                      *)
(***************************************************************************)
World == [segs |-> transcriptSegments, chunks |-> recordingChunks,
          errs |-> errorLog, map |-> segments]

\* processAudioSegment after the await (and handleDataAvailable after it)
RecorderContinuation(W, id, r, ok, text, t) ==
  LET transcribedText == Trim(text)
  IN  IF ok /\ Len(transcribedText) > 0
      THEN [W EXCEPT !.segs = handleNewSegment(@,
                        [id |-> id, timestamp |-> r.timestamp,
                         text |-> transcribedText, isProcessing |-> FALSE], t),
                     !.chunks = <<>>]
      ELSE [W EXCEPT !.chunks = <<>>]

\* TRUE when the continuation delivers an isProcessing=false update
RecorderCompletes(ok, text) == ok /\ Len(Trim(text)) > 0

\* faulty variant: the manager marks the failed segment but reports nothing
ManagerContinuationUnreported(W, id, r, ok, text, t) ==
  [W EXCEPT !.map = (id :> [id |-> id, timestamp |-> r.timestamp,
                            text |-> IF ok THEN Trim(text) ELSE FailedMarker,
                            isProcessing |-> FALSE]) @@ @]

\* SegmentManager.handleAudioSegment after the await: the try tail and the
\* catch block
ManagerContinuation(W, id, r, ok, text, t) ==
  IF ok
  THEN [W EXCEPT !.map = (id :> [id |-> id, timestamp |-> r.timestamp,
                                 text |-> Trim(text),
                                 isProcessing |-> FALSE]) @@ @]
  ELSE [W EXCEPT !.map = (id :> [id |-> id, timestamp |-> r.timestamp,
                                 text |-> FailedMarker,
                                 isProcessing |-> FALSE]) @@ @,
                 !.errs = Append(@, id)]

Continue(W, id, r, ok, text, t) ==
  IF r.owner = "recorder" THEN RecorderContinuation(W, id, r, ok, text, t)
  ELSE IF r.owner = "manager" THEN ManagerContinuation(W, id, r, ok, text, t)
  ELSE W

Completes(r, ok, text) ==
  IF r.owner = "recorder" THEN RecorderCompletes(ok, text)
  ELSE r.owner = "manager"

ApplyWorld(W) ==
  /\ transcriptSegments' = W.segs
  /\ recordingChunks' = W.chunks
  /\ errorLog' = W.errs
  /\ segments' = W.map

(***************************************************************************)
(* WhisperAPI actions                                                      *)
(***************************************************************************)
\* the user, the speaker and the network act on a coarse grid of instants
OnInputGrid == Timed \/ (now - Epoch) % InputGrain = 0

\* the instants around the per-second ticks at which the speaker starts or
\* stops in the runs that follow two uploads closely
NearSecondTick ==
  \/ (now - Epoch) % 1000 >= 900
  \/ (now - Epoch) % 1000 <= 20

\* what a fetch can return; a run of the whole pipeline draws from one
\* reply of each kind (speech, no speech, transient error, fatal error)
FetchOutcomes ==
  IF bound.replies = "all"
  THEN [ok : {TRUE}, text : ResponseTexts, error : {<<>>}] \cup
       [ok : {FALSE}, text : {<<>>}, error : ErrorMessages]
  ELSE [ok : {TRUE}, text : {TextBlank, TextPadded}, error : {<<>>}] \cup
       [ok : {FALSE}, text : {<<>>}, error : {Msg503, Msg401}]

\* the fetch of loop i returns: resolve, retry after a backoff, or reject
FetchReturns(i, o) ==
  /\ i \in 1..Len(loops)
  /\ loops[i].pc = "fetch"
  /\ OnInputGrid
  /\ LET id == loops[i].req
         r == requests[id]
     IN  IF ~o.ok /\ ShouldRetry(loops[i].retryCount, o.error)
         THEN /\ loops' = [loops EXCEPT ![i].pc = "backoff"]
              /\ requests' = [requests EXCEPT
                    ![id].delays = Append(@, BackoffDelay(loops[i].retryCount)),
                    ![id].error = o.error,
                    ![id].endedAt = IF Timed THEN now ELSE @]
              /\ UNCHANGED <<transcriptSegments, recordingChunks, errorLog,
                             segments>>
         ELSE /\ loops' = [loops EXCEPT ![i].pc = "gap"]
              /\ requests' = [requests EXCEPT
                    ![id].status = IF o.ok THEN "resolved" ELSE "rejected",
                    ![id].error = o.error,
                    ![id].settledToggle = toggles,
                    ![id].endedAt = IF Timed THEN now ELSE @,
                    ![id].completions =
                        IF Completes(r, o.ok, o.text) THEN @ + 1 ELSE @]
              /\ ApplyWorld(Continue(World, id, r, o.ok, o.text, now))
  /\ UNCHANGED <<requestQueue, isProcessing, startOrder>>
  /\ UNCHANGED <<isInitialized, isRecording, segmentTimers, now, settings,
                 bound, callVars, dspVars, sessionVars, timerVars,
                 pendingData, segVars,
                 ghostVars>>

\* await this.delay(this.retryDelay * Math.pow(2, retryCount)) is over
BackoffOver(i) ==
  LET r == requests[loops[i].req]
  IN now >= r.endedAt + r.delays[Len(r.delays)]

\* the backoff delay of loop i elapses: the request is sent again
BackoffElapsed(i) ==
  /\ i \in 1..Len(loops)
  /\ loops[i].pc = "backoff"
  /\ OnInputGrid
  /\ Timed => BackoffOver(i)
  /\ loops' = [loops EXCEPT ![i].pc = "fetch", ![i].retryCount = @ + 1]
  /\ requests' = [requests EXCEPT ![loops[i].req].attempts = @ + 1]
  /\ UNCHANGED <<requestQueue, isProcessing, startOrder>>
  /\ UNCHANGED <<managerVars, now, settings, bound, callVars, dspVars,
                 sessionVars, timerVars,
                 mediaVars,
                 segVars, ghostVars, storeVars>>

\* faulty variant: the loop goes on without waiting
GapOverAtOnce(i) == TRUE

\* faulty variant: the loop does not look at the queue again after its delay
GapElapsedEnds(i) ==
  /\ i \in 1..Len(loops)
  /\ loops[i].pc = "gap"
  /\ loops' = RemoveAt(loops, i)
  /\ isProcessing' = FALSE
  /\ UNCHANGED <<requestQueue, requests, startOrder>>
  /\ UNCHANGED <<managerVars, now, settings, bound, callVars, dspVars,
                 sessionVars, timerVars,
                 mediaVars,
                 segVars, ghostVars, storeVars>>

\* await this.delay(200) is over
GapOver(i) == now >= requests[loops[i].req].endedAt + QueueGap

\* the 200 ms delay of loop i elapses: next request, or the loop ends
GapElapsed(i) ==
  /\ i \in 1..Len(loops)
  /\ loops[i].pc = "gap"
  /\ OnInputGrid
  /\ Timed => GapOver(i)
  /\ IF Len(requestQueue) > 0
     THEN /\ loops' = [loops EXCEPT ![i] = [req |-> Head(requestQueue),
                                            pc |-> "fetch", retryCount |-> 0]]
          /\ requestQueue' = Tail(requestQueue)
          /\ requests' = IssueFetch(requests, Head(requestQueue))
          /\ startOrder' = Append(startOrder, Head(requestQueue))
          /\ UNCHANGED isProcessing
     ELSE /\ loops' = RemoveAt(loops, i)
          /\ isProcessing' = FALSE
          /\ UNCHANGED <<requestQueue, requests, startOrder>>
  /\ UNCHANGED <<managerVars, now, settings, bound, callVars, dspVars,
                 sessionVars, timerVars,
                 mediaVars,
                 segVars, ghostVars, storeVars>>


(***************************************************************************)
(* VoiceActivityDetector: feature extraction                               *)
(*                                                                         *)
(* A frame is the analyser's byte array (frequencyBinCount entries of      *)
(* 0..255).  Energies are exact multiples of 1/EnergyUnit, where           *)
(* EnergyUnit = 255 * 255 * 5760 and 5760 is the least common multiple of  *)
(* the four divisors 128, 4, 36 and 80 used by the code, so that every     *)
(* band energy and its comparison with a threshold is an integer           *)
(* computation.  The frames explored keep every compared quantity away     *)
(* from its threshold by far more than the rounding of the Float32Array    *)
(* and of the double divisions, which is therefore not represented.        *)
(***************************************************************************)
NumBins == 128
ByteMax == 255
BandScale == 5760
EnergyUnit == ByteMax * ByteMax * BandScale
NoiseBufferSize == 50
EnergyHistorySize == 10
NoSpectrum == <<>>

Bins == 0 .. (NumBins - 1)

VOICE_FREQUENCY_BANDS ==
  [fundamental |-> [start |-> 1, end |-> 4],
   formants    |-> [start |-> 12, end |-> 47],
   highFreq    |-> [start |-> 48, end |-> 127]]

Min(a, b) == IF a < b THEN a ELSE b

Max(a, b) == IF a > b THEN a ELSE b

Abs(a) == IF a < 0 THEN -a ELSE a

\* The loops over the bins are evaluated by halving the index range, which
\* visits the bins in the order of the loop.

\* sum of data[i]^2 for lo <= i <= hi
RECURSIVE SumSq(_, _, _)
SumSq(data, lo, hi) ==
  IF lo > hi THEN 0
  ELSE IF lo = hi THEN data[lo] * data[lo]
  ELSE SumSq(data, lo, (lo + hi) \div 2)
       + SumSq(data, (lo + hi) \div 2 + 1, hi)

\* calculateBandEnergy: the squares of the bins of the band that exist,
\* divided by the nominal width of the band
calculateBandEnergy(data, startBin, endBin) ==
  SumSq(data, startBin, Min(endBin, NumBins - 1))
    * (BandScale \div (endBin - startBin + 1))

\* sum of data[i] and of i * data[i] for lo <= i <= hi
RECURSIVE SumBins(_, _, _)
SumBins(data, lo, hi) ==
  IF lo = hi THEN data[lo]
  ELSE SumBins(data, lo, (lo + hi) \div 2)
       + SumBins(data, (lo + hi) \div 2 + 1, hi)

RECURSIVE SumWeighted(_, _, _)
SumWeighted(data, lo, hi) ==
  IF lo = hi THEN lo * data[lo]
  ELSE SumWeighted(data, lo, (lo + hi) \div 2)
       + SumWeighted(data, (lo + hi) \div 2 + 1, hi)

\* calculateSpectralCentroid: (numerator / denominator) / length as the
\* fraction num/den, and 0 (that is 0/1) when the denominator is not positive
calculateSpectralCentroid(data) ==
  LET numerator == SumWeighted(data, 0, NumBins - 1)
      denominator == SumBins(data, 0, NumBins - 1)
  IN IF denominator > 0
     THEN [num |-> numerator, den |-> denominator * NumBins]
     ELSE [num |-> 0, den |-> 1]

\* faulty variant: the running sum has to exceed the target
RolloffExceeded(cumulativeEnergy, totalEnergy) ==
  100 * cumulativeEnergy > 85 * totalEnergy

\* cumulativeEnergy >= totalEnergy * threshold, the threshold being 0.85
RolloffReached(cumulativeEnergy, totalEnergy) ==
  100 * cumulativeEnergy >= 85 * totalEnergy

\* the loop of calculateSpectralRolloff over the bins lo..hi, entered with
\* the running sum cumulative: the index at which it returns, or the
\* running sum with which it leaves the range
RECURSIVE RolloffLoop(_, _, _, _, _)
RolloffLoop(data, lo, hi, cumulative, total) ==
  IF lo = hi
  THEN IF RolloffReached(cumulative + data[lo], total)
       THEN [returns |-> TRUE, index |-> lo]
       ELSE [returns |-> FALSE, cumulative |-> cumulative + data[lo]]
  ELSE LET first == RolloffLoop(data, lo, (lo + hi) \div 2, cumulative, total)
       IN IF first.returns THEN first
          ELSE RolloffLoop(data, (lo + hi) \div 2 + 1, hi,
                           first.cumulative, total)

\* calculateSpectralRolloff in units of 1/length; length (that is 1.0) when
\* the loop ends without returning
calculateSpectralRolloff(data) ==
  LET loop == RolloffLoop(data, 0, NumBins - 1, 0,
                          SumBins(data, 0, NumBins - 1))
  IN IF loop.returns THEN loop.index ELSE NumBins

\* analyzeSpectrum: the spectral features of the current frequencyData
analyzeSpectrum(data) ==
  [fundamentalEnergy |->
     calculateBandEnergy(data, VOICE_FREQUENCY_BANDS.fundamental.start,
                         VOICE_FREQUENCY_BANDS.fundamental.end),
   formantEnergy |->
     calculateBandEnergy(data, VOICE_FREQUENCY_BANDS.formants.start,
                         VOICE_FREQUENCY_BANDS.formants.end),
   spectralCentroid |-> calculateSpectralCentroid(data),
   spectralRolloff |-> calculateSpectralRolloff(data),
   shortTimeEnergy |-> SumSq(data, 0, NumBins - 1) * (BandScale \div NumBins)]

\* analyzeTimeSignal: the number of sign changes of (sample - 128) / 128;
\* the zero crossing rate is this count over length - 1
RECURSIVE ZeroCrossings(_, _, _)
ZeroCrossings(samples, lo, hi) ==
  IF lo = hi
  THEN IF (samples[lo - 1] >= 128) # (samples[lo] >= 128) THEN 1 ELSE 0
  ELSE ZeroCrossings(samples, lo, (lo + hi) \div 2)
       + ZeroCrossings(samples, (lo + hi) \div 2 + 1, hi)

analyzeTimeSignal(samples) ==
  [zeroCrossingRate |-> ZeroCrossings(samples, 1, NumBins - 1)]

\* one step of shortTimeEnergy (a sum of squared bytes over length), and
\* the sum of |history[i] - history[i-1]| counted in such steps
SteStep == BandScale \div NumBins

RECURSIVE SumAbsDiffs(_)
SumAbsDiffs(history) ==
  IF Len(history) < 2 THEN 0
  ELSE Abs(history[2] - history[1]) \div SteStep + SumAbsDiffs(Tail(history))

RECURSIVE SumSqDiffs(_, _, _, _)
SumSqDiffs(data, previous, lo, hi) ==
  IF lo = hi
  THEN (data[lo] - previous[lo]) * (data[lo] - previous[lo])
  ELSE SumSqDiffs(data, previous, lo, (lo + hi) \div 2)
       + SumSqDiffs(data, previous, (lo + hi) \div 2 + 1, hi)

\* faulty variant: the history is pushed and never shifted
PushHistoryUnbounded(history, energy) == Append(history, energy)

\* energyHistory after the push and the shift of analyzeDynamicFeatures
PushHistory(history, energy) ==
  IF Len(history) + 1 > EnergyHistorySize
  THEN Tail(Append(history, energy))
  ELSE Append(history, energy)

\* analyzeDynamicFeatures: energyVariation is the mean of the absolute
\* differences (the fraction num/den, 0/1 for a history of one entry);
\* spectralFlux is kept as the sum of the squared byte differences, of
\* which it is the square root over 255 * sqrt(length)
analyzeDynamicFeatures(history, data, previous) ==
  [energyVariation |->
     IF Len(history) > 1
     THEN [num |-> SumAbsDiffs(history), den |-> Len(history) - 1]
     ELSE [num |-> 0, den |-> 1],
   spectralFlux |->
     IF previous # NoSpectrum
     THEN SumSqDiffs(data, previous, 0, NumBins - 1) ELSE 0]

(***************************************************************************)
(* VoiceActivityDetector: classification                                   *)
(*                                                                         *)
(* The scores are JavaScript numbers, that is IEEE-754 doubles, built by   *)
(* adding the literals 0.3, 0.4, 0.2 and 0.1.  A score is written <<t, u>>: *)
(* the double that lies u representable steps above the double nearest to *)
(* t/10.  InexactSums lists the double additions a + b, among the scores   *)
(* the classifier can form, whose result is not the double nearest to the  *)
(* decimal sum (0.2 + 0.1 is 0.30000000000000004, one step above 0.3).     *)
(***************************************************************************)
InexactSums ==
  {<<<<1, 0>>, <<2, 0>>, <<3, 1>>>>,
   <<<<2, 0>>, <<1, 0>>, <<3, 1>>>>,
   <<<<2, 0>>, <<4, 0>>, <<6, 1>>>>,
   <<<<3, 0>>, <<3, 1>>, <<6, 1>>>>,
   <<<<3, 0>>, <<6, 0>>, <<9, -1>>>>,
   <<<<3, 1>>, <<3, 0>>, <<6, 1>>>>,
   <<<<3, 1>>, <<3, 1>>, <<6, 1>>>>,
   <<<<3, 1>>, <<4, 0>>, <<7, 1>>>>,
   <<<<4, 0>>, <<2, 0>>, <<6, 1>>>>,
   <<<<4, 0>>, <<3, 1>>, <<7, 1>>>>,
   <<<<6, 0>>, <<3, 0>>, <<9, -1>>>>,
   <<<<6, 1>>, <<1, 0>>, <<7, 1>>>>,
   <<<<6, 1>>, <<3, 0>>, <<9, 1>>>>,
   <<<<6, 1>>, <<3, 1>>, <<9, 1>>>>,
   <<<<6, 1>>, <<6, 0>>, <<12, 1>>>>,
   <<<<7, 0>>, <<1, 0>>, <<8, -1>>>>,
   <<<<7, 0>>, <<2, 0>>, <<9, -1>>>>,
   <<<<7, 0>>, <<6, 0>>, <<13, -1>>>>,
   <<<<7, 1>>, <<2, 0>>, <<9, 1>>>>,
   <<<<7, 1>>, <<5, 0>>, <<12, 1>>>>,
   <<<<8, -1>>, <<1, 0>>, <<9, -1>>>>,
   <<<<8, -1>>, <<3, 0>>, <<11, -1>>>>,
   <<<<8, -1>>, <<5, 0>>, <<13, -1>>>>,
   <<<<9, -1>>, <<1, 0>>, <<10, -1>>>>,
   <<<<9, -1>>, <<2, 0>>, <<11, -1>>>>,
   <<<<9, -1>>, <<4, 0>>, <<13, -1>>>>,
   <<<<10, -1>>, <<1, 0>>, <<11, -1>>>>,
   <<<<10, -1>>, <<3, 0>>, <<13, -1>>>>,
   <<<<10, -1>>, <<3, 1>>, <<13, -1>>>>,
   <<<<10, -1>>, <<6, 0>>, <<16, -1>>>>}

\* a + b in double arithmetic
FloatSum(a, b) ==
  IF a = <<0, 0>> THEN b
  ELSE IF b = <<0, 0>> THEN a
  ELSE IF \E e \in InexactSums : e[1] = a /\ e[2] = b
  THEN (CHOOSE e \in InexactSums : e[1] = a /\ e[2] = b)[3]
  ELSE <<a[1] + b[1], 0>>

\* a > b on doubles
FloatGreater(a, b) == a[1] > b[1] \/ (a[1] = b[1] /\ a[2] > b[2])

\* Math.min(1.0, total)
FloatMin1(total) == IF FloatGreater(total, <<10, 0>>) THEN <<10, 0>> ELSE total

\* the thresholds, in the units of the features they are compared with
DETECTION_THRESHOLDS ==
  [minVoiceEnergy |-> EnergyUnit \div 100,
   voiceFormantRatio |-> [num |-> 3, den |-> 2],
   voiceZcrRange |-> <<[num |-> 1, den |-> 10], [num |-> 1, den |-> 2]>>,
   computerAudioHighFreqRatio |-> [num |-> 1, den |-> 2],
   confidenceThreshold |-> <<5, 0>>,
   minAudioLevel |-> 20]

\* 0.001, the term added to the denominators of the two ratios
Epsilon == EnergyUnit \div 1000

\* one unit of audioLevel: audioLevel is shortTimeEnergy * 1000
AudioLevelUnit == EnergyUnit \div 1000

\* the seven scoring rules of classifyAudioType
FundamentalRule(features) == features.fundamentalEnergy > EnergyUnit \div 100

FormantRule(features) ==
  DETECTION_THRESHOLDS.voiceFormantRatio.den * features.formantEnergy
    > DETECTION_THRESHOLDS.voiceFormantRatio.num
        * (features.fundamentalEnergy + Epsilon)

ZcrRule(features) ==
  LET minZcr == DETECTION_THRESHOLDS.voiceZcrRange[1]
      maxZcr == DETECTION_THRESHOLDS.voiceZcrRange[2]
  IN /\ minZcr.den * features.zeroCrossingRate >= minZcr.num * (NumBins - 1)
     /\ maxZcr.den * features.zeroCrossingRate <= maxZcr.num * (NumBins - 1)

CentroidRule(features) ==
  /\ 5 * features.spectralCentroid.num > features.spectralCentroid.den
  /\ 5 * features.spectralCentroid.num < 3 * features.spectralCentroid.den

HighFreqRule(features, data) ==
  LET highFreqEnergy ==
        calculateBandEnergy(data, VOICE_FREQUENCY_BANDS.highFreq.start,
                            VOICE_FREQUENCY_BANDS.highFreq.end)
  IN DETECTION_THRESHOLDS.computerAudioHighFreqRatio.den * highFreqEnergy
       > DETECTION_THRESHOLDS.computerAudioHighFreqRatio.num
           * (features.shortTimeEnergy + Epsilon)

\* faulty variant: the rolloff has to exceed 0.9
RolloffRuleHigh(features) == 10 * features.spectralRolloff > 9 * NumBins

RolloffRule(features) == 10 * features.spectralRolloff > 7 * NumBins

SteadyRule(features) ==
  features.energyVariation.num
    < (EnergyUnit \div (100 * SteStep)) * features.energyVariation.den

Weight(applies, w) == IF applies THEN <<w, 0>> ELSE <<0, 0>>

humanVoiceScore(features) ==
  FloatSum(FloatSum(FloatSum(Weight(FundamentalRule(features), 3),
                             Weight(FormantRule(features), 4)),
                    Weight(ZcrRule(features), 2)),
           Weight(CentroidRule(features), 1))

computerAudioScore(features, data) ==
  FloatSum(FloatSum(Weight(HighFreqRule(features, data), 3),
                    Weight(RolloffRule(features), 2)),
           Weight(SteadyRule(features), 1))

\* faulty variant: the level is not capped
audioLevelUncapped(features) == features.shortTimeEnergy

\* Math.min(100, shortTimeEnergy * 1000) in units of 1/AudioLevelUnit
audioLevelOf(features) ==
  Min(100 * AudioLevelUnit, features.shortTimeEnergy)

\* faulty variant: only a frame without any energy counts as silence
belowMinVoiceEnergyZero(features) == features.shortTimeEnergy = 0

\* features.shortTimeEnergy < DETECTION_THRESHOLDS.minVoiceEnergy
belowMinVoiceEnergy(features) ==
  features.shortTimeEnergy < DETECTION_THRESHOLDS.minVoiceEnergy

\* faulty variant: the two flags are decided independently of each other
classifyAudioTypeIndependent(features, data) ==
  LET human == humanVoiceScore(features)
      computer == computerAudioScore(features, data)
      totalScore == FloatSum(human, computer)
      scored == ~belowMinVoiceEnergy(features)
                /\ FloatGreater(totalScore, <<0, 0>>)
  IN [isHumanVoice |-> /\ scored
                       /\ FloatGreater(human, computer)
                       /\ FloatGreater(human, <<2, 0>>),
      isComputerAudio |-> scored /\ FloatGreater(computer, <<3, 0>>),
      confidence |-> IF belowMinVoiceEnergy(features) THEN <<9, 0>>
                     ELSE IF FloatGreater(totalScore, <<0, 0>>)
                     THEN FloatMin1(totalScore) ELSE <<0, 0>>,
      features |-> features,
      audioLevel |-> IF belowMinVoiceEnergy(features) THEN 0
                     ELSE audioLevelOf(features)]

classifyAudioType(features, data) ==
  LET human == humanVoiceScore(features)
      computer == computerAudioScore(features, data)
      totalScore == FloatSum(human, computer)
      confidence == IF FloatGreater(totalScore, <<0, 0>>)
                    THEN FloatMin1(totalScore) ELSE <<0, 0>>
  IN IF belowMinVoiceEnergy(features)
     THEN [isHumanVoice |-> FALSE, isComputerAudio |-> FALSE,
           confidence |-> <<9, 0>>, features |-> features, audioLevel |-> 0]
     ELSE IF /\ FloatGreater(totalScore, <<0, 0>>)
             /\ FloatGreater(human, computer)
             /\ FloatGreater(human, <<2, 0>>)
     THEN [isHumanVoice |-> TRUE, isComputerAudio |-> FALSE,
           confidence |-> confidence, features |-> features,
           audioLevel |-> audioLevelOf(features)]
     ELSE IF /\ FloatGreater(totalScore, <<0, 0>>)
             /\ FloatGreater(computer, <<3, 0>>)
     THEN [isHumanVoice |-> FALSE, isComputerAudio |-> TRUE,
           confidence |-> confidence, features |-> features,
           audioLevel |-> audioLevelOf(features)]
     ELSE [isHumanVoice |-> FALSE, isComputerAudio |-> FALSE,
           confidence |-> confidence, features |-> features,
           audioLevel |-> audioLevelOf(features)]

(***************************************************************************)
(* VoiceActivityDetector: background noise and the detector object         *)
(***************************************************************************)
Range(s) == {s[i] : i \in DOMAIN s}

\* sortedBuffer[index] of the ascending copy (index counts from 0)
SortedAt(buffer, index) ==
  CHOOSE v \in Range(buffer) :
    /\ Cardinality({i \in DOMAIN buffer : buffer[i] < v}) <= index
    /\ Cardinality({i \in DOMAIN buffer : buffer[i] <= v}) > index

\* noiseEstimationBuffer after the push and the shift
PushNoise(buffer, currentEnergy) ==
  IF Len(buffer) + 1 > NoiseBufferSize
  THEN Tail(Append(buffer, currentEnergy))
  ELSE Append(buffer, currentEnergy)

\* faulty variant: the level is read after the threshold floor is applied
updateBackgroundNoiseFloored(buffer, currentEnergy) ==
  LET pushed == PushNoise(buffer, currentEnergy)
      level == SortedAt(pushed, (Len(pushed) * 2) \div 10)
  IN [noiseEstimationBuffer |-> pushed,
      backgroundNoiseLevel |-> Max(EnergyUnit \div 10, level * 3),
      adaptiveThreshold |-> Max(EnergyUnit \div 10, level * 3)]

\* updateBackgroundNoise: the fields it assigns
updateBackgroundNoise(buffer, currentEnergy) ==
  LET pushed == PushNoise(buffer, currentEnergy)
      percentile20Index == (Len(pushed) * 2) \div 10
      level == IF percentile20Index < Len(pushed)
               THEN SortedAt(pushed, percentile20Index) ELSE 0
  IN [noiseEstimationBuffer |-> pushed,
      backgroundNoiseLevel |-> level,
      adaptiveThreshold |-> Max(EnergyUnit \div 10, level * 3)]

\* the detector after its constructor; returned holds the last result of
\* detectVoiceActivity, maxPushed and calls record what was fed to it,
\* failures the calls that threw
NewDetector ==
  [frequencyData |-> [i \in Bins |-> 0],
   timeData |-> [i \in Bins |-> 0],
   backgroundNoiseLevel |-> 0,
   adaptiveThreshold |-> 3 * (EnergyUnit \div 10),
   noiseEstimationBuffer |-> [i \in 1 .. NoiseBufferSize |-> 0],
   previousSpectrum |-> NoSpectrum,
   energyHistory |-> <<>>,
   returned |-> <<>>,
   maxPushed |-> 0,
   calls |-> 0,
   failures |-> 0]

\* detectVoiceActivity on a detector d whose analyser delivers the frame
\* data and the samples
detectVoiceActivity(d, data, samples) ==
  LET spectralFeatures == analyzeSpectrum(data)
      temporalFeatures == analyzeTimeSignal(samples)
      history == PushHistory(d.energyHistory, spectralFeatures.shortTimeEnergy)
      dynamicFeatures ==
        analyzeDynamicFeatures(history, data, d.previousSpectrum)
      noise == updateBackgroundNoise(d.noiseEstimationBuffer,
                                     spectralFeatures.shortTimeEnergy)
      features ==
        [fundamentalEnergy |-> spectralFeatures.fundamentalEnergy,
         formantEnergy |-> spectralFeatures.formantEnergy,
         spectralCentroid |-> spectralFeatures.spectralCentroid,
         spectralRolloff |-> spectralFeatures.spectralRolloff,
         zeroCrossingRate |-> temporalFeatures.zeroCrossingRate,
         shortTimeEnergy |-> spectralFeatures.shortTimeEnergy,
         energyVariation |-> dynamicFeatures.energyVariation,
         spectralFlux |-> dynamicFeatures.spectralFlux]
  IN [frequencyData |-> data,
      timeData |-> samples,
      backgroundNoiseLevel |-> noise.backgroundNoiseLevel,
      adaptiveThreshold |-> noise.adaptiveThreshold,
      noiseEstimationBuffer |-> noise.noiseEstimationBuffer,
      previousSpectrum |-> data,
      energyHistory |-> history,
      returned |-> <<classifyAudioType(features, data)>>,
      maxPushed |-> Max(d.maxPushed, spectralFeatures.shortTimeEnergy),
      calls |-> d.calls + 1,
      failures |-> d.failures]

getBackgroundNoiseLevel(d) == d.backgroundNoiseLevel

getAdaptiveThreshold(d) == d.adaptiveThreshold

(***************************************************************************)
(* Frames and sample blocks fed to the detector                            *)
(***************************************************************************)
Flat(v) == [i \in Bins |-> v]

Band(lo, hi, v) == [i \in Bins |-> IF lo <= i /\ i <= hi THEN v ELSE 0]

Overlay(f, g) == [i \in Bins |-> Max(f[i], g[i])]

FrameSilent == Flat(0)

\* a flat spectrum below the silence floor
FrameFaint == Flat(20)

\* flat spectra above the silence floor (white noise)
FrameWhiteNoise == Flat(128)

FrameLoudNoise == Flat(ByteMax)

\* 150 Hz lies in bin 1 (bins are 44100 / 256 Hz wide): the tone alone,
\* and the tone with the leakage of the analysis window into bins 0..3
FrameToneBin == Band(1, 1, ByteMax)

FrameTone ==
  [i \in Bins |-> IF i = 1 THEN ByteMax ELSE IF i \in {0, 2} THEN 200
                  ELSE IF i = 3 THEN 100 ELSE 0]

\* a low-mid band with a faint hiss above 4 kHz
FrameHum == Overlay(Band(5, 11, ByteMax), Band(48, 127, 13))

\* a narrow band above 4 kHz
FrameWhistle == Band(48, 70, ByteMax)

\* energy in the fundamental band and more in the formant band
FrameSpeech == Overlay(Band(1, 4, 100), Band(12, 47, 200))

Frames ==
  {FrameSilent, FrameFaint, FrameWhiteNoise, FrameLoudNoise, FrameToneBin,
   FrameTone, FrameHum, FrameWhistle, FrameSpeech}

\* sample blocks: no sign change, a sign change every 4 samples, a sign
\* change at every sample
SamplesFlat == [i \in Bins |-> 128]

SamplesVoiced == [i \in Bins |-> IF (i \div 4) % 2 = 0 THEN 160 ELSE 96]

SamplesNoisy == [i \in Bins |-> IF i % 2 = 0 THEN 160 ELSE 96]

SampleBlocks == {SamplesFlat, SamplesVoiced, SamplesNoisy}

\* the detector after n detection ticks on the same input
RECURSIVE Repeat(_, _, _, _)
Repeat(d, n, data, samples) ==
  IF n = 0 THEN d
  ELSE LET next == detectVoiceActivity(d, data, samples)
       IN IF next.calls > d.calls   \* the tick is taken, then the others
          THEN Repeat(next, n - 1, data, samples) ELSE d

\* one detection tick: detectVoiceActivity on the analyser's current data
DetectorTick ==
  /\ vad.calls < bound.calls
  /\ \E data \in Frames, samples \in SampleBlocks :
       vad' = detectVoiceActivity(vad, data, samples)
  /\ UNCHANGED <<managerVars, now, settings, bound, callVars, sessionVars,
                 timerVars,
                 mediaVars, segVars, ghostVars, apiVars, storeVars,
                 subtraction, processor, applied>>

(***************************************************************************)
(* SpectralSubtraction (noise suppressor)                                  *)
(*                                                                         *)
(* Magnitudes are multiples of 1/MagnitudeUnit taken on a grid fine enough *)
(* for the moving average (a division by 20 per update) and the gain (a    *)
(* division by 1000) to stay whole numbers within the explored calls.      *)
(***************************************************************************)
spectrumSize == 2
alpha == 2
MaxSuppressorCalls == 3

RECURSIVE Pow20(_)
Pow20(n) == IF n = 0 THEN 1 ELSE 20 * Pow20(n - 1)

MagnitudeUnit == 1000 * Pow20(MaxSuppressorCalls)

Magnitudes == {0, MagnitudeUnit, 3 * MagnitudeUnit}

Spectra == [1 .. spectrumSize -> Magnitudes]

\* the object after its constructor; argument and returned hold the last
\* call of suppress; the counters record the calls made, the updates with
\* isVoice=false since the construction or the last reset, the resets that
\* discarded an estimate, and how many of these preceded the last suppress
NewSpectralSubtraction ==
  [noiseSpectrum |-> [i \in 1 .. spectrumSize |-> 0],
   isInitialized |-> FALSE,
   argument |-> <<>>,
   returned |-> <<>>,
   calls |-> 0,
   suppressCalls |-> 0,
   silenceUpdates |-> 0,
   voiceUpdates |-> 0,
   discarded |-> 0,
   suppressedAfter |-> 0]

\* the SignalProcessor object after its constructor: the enabled flag, the
\* threshold of its WaveletDenoising in thousandths, the last call of
\* processSignal (its spectrum, its isVoice flag, the spectrum it returned),
\* the number of these calls and the number of all calls
NewSignalProcessor ==
  [enabled |-> TRUE,
   threshold |-> 100,
   argument |-> <<>>,
   isVoice |-> <<>>,
   returned |-> <<>>,
   denoised |-> <<>>,
   signals |-> 0,
   calls |-> 0]

\* the calls made so far on the two objects
CallsMade == subtraction.calls + processor.calls

\* faulty variant: the estimate is updated whatever the frame is
updatesNoiseAlways(isVoice) == TRUE

\* if (!isVoice)
updatesNoise(isVoice) == ~isVoice

\* 0.95 * noiseSpectrum[i] + 0.05 * spectrum[i]
MovingAverage(noise, value) == (noise \div 20) * 19 + value \div 20

updateNoiseEstimate(spectrum, isVoice) ==
  /\ CallsMade < bound.suppressorCalls
  /\ subtraction' =
       [subtraction EXCEPT
          !.noiseSpectrum =
             IF ~updatesNoise(isVoice) THEN @
             ELSE IF ~subtraction.isInitialized THEN spectrum
             ELSE [i \in 1 .. spectrumSize |->
                     MovingAverage(@[i], spectrum[i])],
          !.isInitialized = IF updatesNoise(isVoice) THEN TRUE ELSE @,
          !.calls = @ + 1,
          !.silenceUpdates = IF isVoice THEN @ ELSE @ + 1,
          !.voiceUpdates = IF isVoice THEN @ + 1 ELSE @]
  /\ UNCHANGED <<managerVars, now, settings, bound, callVars, vad, sessionVars,
                 timerVars, mediaVars, segVars, ghostVars, apiVars, storeVars,
                 processor, applied>>

\* gain * spectrum[i], where gain is
\* 0.8 * Math.max(beta, 1 - alpha / snr) + 0.2 * beta, snr is
\* spectrum[i] / noiseSpectrum[i], and beta is 0.01
Enhance(value, noise) ==
  IF value > 0 /\ noise > 0
  THEN IF 100 * ((value \div 1000) - alpha * (noise \div 1000))
            > value \div 1000
       THEN 800 * ((value \div 1000) - alpha * (noise \div 1000))
            + 2 * (value \div 1000)
       ELSE 10 * (value \div 1000)
  ELSE value

suppress(spectrum) ==
  /\ CallsMade < bound.suppressorCalls
  /\ subtraction' =
       [subtraction EXCEPT
          !.argument = <<spectrum>>,
          !.returned =
             IF ~subtraction.isInitialized THEN <<spectrum>>
             ELSE <<[i \in 1 .. spectrumSize |->
                       Enhance(spectrum[i], subtraction.noiseSpectrum[i])]>>,
          !.calls = @ + 1,
          !.suppressCalls = @ + 1,
          !.suppressedAfter = subtraction.discarded]
  /\ UNCHANGED <<managerVars, now, settings, bound, callVars, vad, sessionVars,
                 timerVars, mediaVars, segVars, ghostVars, apiVars, storeVars,
                 processor, applied>>

\* reset() on the object sub: this.noiseSpectrum.fill(0) and the flag
resetOn(sub) ==
  [sub EXCEPT
     !.noiseSpectrum = [i \in DOMAIN @ |-> 0],
     !.isInitialized = FALSE,
     !.silenceUpdates = 0,
     !.discarded = IF sub.isInitialized THEN @ + 1 ELSE @]

reset ==
  /\ CallsMade < bound.suppressorCalls
  /\ subtraction' = [resetOn(subtraction) EXCEPT !.calls = @ + 1]
  /\ UNCHANGED <<managerVars, now, settings, bound, callVars, vad, sessionVars,
                 timerVars, mediaVars, segVars, ghostVars, apiVars, storeVars,
                 processor, applied>>

(***************************************************************************)
(* SignalProcessor                                                         *)
(***************************************************************************)
\* the noise levels handed to processSignal, in thousandths
NoiseLevels == {0, 50, 200}

\* Math.max(0.05, Math.min(0.3, noiseLevel * 2)), in thousandths
setAdaptiveThreshold(noiseLevel) == Max(50, Min(300, noiseLevel * 2))

\* the time signals handed to processSignal, in thousandths
TimeSignals == {<<>>, <<-400, 100>>}

\* WaveletDenoising.denoise: the soft threshold, into a new array
denoise(signal, threshold) ==
  [i \in DOMAIN signal |->
     IF Abs(signal[i]) > threshold
     THEN IF signal[i] < 0 THEN -(Abs(signal[i]) - threshold)
          ELSE Abs(signal[i]) - threshold
     ELSE 0]

\* faulty variant: the denoised time signal is merged into the spectrum
processedOutputMerged(processedSpectrum, denoised) ==
  [i \in DOMAIN processedSpectrum |->
     processedSpectrum[i]
     + (IF i \in DOMAIN denoised THEN Abs(denoised[i]) ELSE 0)]

\* return processedSpectrum: the value of denoise is dropped
processedOutput(processedSpectrum, denoised) == processedSpectrum

\* faulty variant: spectral subtraction is applied to every frame
appliesSuppressionAlways(isVoice) == TRUE

\* if (isVoice) processedSpectrum = suppress(processedSpectrum)
appliesSuppression(isVoice) == isVoice

\* the whole of processSignal on the objects sub and proc: the
\* short-circuit of a disabled processor, else updateNoiseEstimate, suppress
\* on a voice frame, the threshold of the wavelet denoiser and its run on
\* a time signal that is not empty; denoised keeps what denoise last
\* returned
processSignalOn(sub, proc, spectrum, timeSignal, isVoice, noiseLevel) ==
  LET threshold ==
        IF proc.enabled THEN setAdaptiveThreshold(noiseLevel)
        ELSE proc.threshold
      denoised ==
        IF proc.enabled /\ DOMAIN timeSignal # {}
        THEN denoise(timeSignal, threshold) ELSE proc.denoised
      noise ==
        IF ~proc.enabled \/ ~updatesNoise(isVoice) THEN sub.noiseSpectrum
        ELSE IF ~sub.isInitialized THEN spectrum
        ELSE [i \in DOMAIN spectrum |->
                MovingAverage(sub.noiseSpectrum[i], spectrum[i])]
      initialized ==
        sub.isInitialized \/ (proc.enabled /\ updatesNoise(isVoice))
      suppresses == proc.enabled /\ appliesSuppression(isVoice)
      processed ==
        IF ~suppresses \/ ~initialized THEN spectrum
        ELSE [i \in DOMAIN spectrum |-> Enhance(spectrum[i], noise[i])]
      output ==
        IF proc.enabled THEN processedOutput(processed, denoised)
        ELSE spectrum
  IN [subtraction |->
        [sub EXCEPT
           !.noiseSpectrum = noise,
           !.isInitialized = initialized,
           !.silenceUpdates = IF proc.enabled /\ ~isVoice THEN @ + 1 ELSE @,
           !.voiceUpdates = IF proc.enabled /\ isVoice THEN @ + 1 ELSE @,
           !.argument = IF suppresses THEN <<spectrum>> ELSE @,
           !.returned = IF suppresses THEN <<processed>> ELSE @,
           !.suppressCalls = IF suppresses THEN @ + 1 ELSE @,
           !.suppressedAfter = IF suppresses THEN sub.discarded ELSE @],
      processor |->
        [proc EXCEPT
           !.threshold = threshold,
           !.denoised = denoised,
           !.argument = <<spectrum>>,
           !.isVoice = <<isVoice>>,
           !.returned = <<output>>,
           !.signals = @ + 1,
           !.calls = @ + 1]]

processSignal(spectrum, timeSignal, isVoice, noiseLevel) ==
  /\ CallsMade < bound.suppressorCalls
  /\ LET after == processSignalOn(subtraction, processor, spectrum,
                                  timeSignal, isVoice, noiseLevel)
     IN /\ subtraction' = after.subtraction
        /\ processor' = after.processor
  /\ UNCHANGED <<managerVars, now, settings, bound, callVars, vad, sessionVars,
                 timerVars, mediaVars, segVars, ghostVars, apiVars, storeVars,
                 applied>>

setEnabled(enabled) ==
  /\ CallsMade < bound.suppressorCalls
  /\ processor' = [processor EXCEPT !.enabled = enabled, !.calls = @ + 1]
  /\ UNCHANGED <<managerVars, now, settings, bound, callVars, vad, sessionVars,
                 timerVars, mediaVars, segVars, ghostVars, apiVars, storeVars,
                 subtraction, applied>>

(***************************************************************************)
(* Recorder component: start / stop                                        *)
(***************************************************************************)
BlobSizes == {0, MinBlobSize, MinBlobSize + 1}

\* the Start button of the app component is disabled without an API key and
\* while the recorder is initializing
ButtonEnabled == settings.openaiApiKey /\ ~isInitializing

\* startRecording from its try block on; mr and vd are the media recorder
\* state and the detector flag at that point
StartBody(mr, vd) ==
  IF mr = "recording"
  THEN \* mediaRecorder.start() throws InvalidStateError: caught
       /\ recordingChunks' = <<>>
       /\ initializationError' = TRUE
       /\ mediaRecorder' = mr
       /\ UNCHANGED <<internalIsRecording, timerVars, segVars>>
  ELSE /\ recordingChunks' = <<>>
       /\ mediaRecorder' = "recording"
       /\ internalIsRecording' = TRUE
       /\ activeRecordingTime' = 0
       /\ totalRecordingTime' = 0
       /\ segmentRecordingTime' = 0
       /\ isSegmentReady' = FALSE
       /\ lastVoiceEndTime' = 0
       /\ wasVoiceActive' = FALSE
       /\ isVoiceActive' = FALSE
       /\ recordingTimer' = now + SecondPeriod
       /\ voiceDetectionTimer' =
            IF vd THEN now + DetectionPeriod ELSE voiceDetectionTimer
       /\ UNCHANGED <<restartTimers, initializationError>>

\* toggleRecording while not recording: startRecording up to its first await
StartRecording ==
  /\ bound.path = "recorder"
  /\ ButtonEnabled
  /\ ~internalIsRecording
  /\ OnInputGrid
  /\ toggles < bound.toggles
  /\ toggles' = toggles + 1
  /\ IF mediaRecorder = "null"
     THEN IF ~settings.openaiApiKey
          THEN /\ initializationError' = TRUE
               /\ UNCHANGED <<mediaRecorder, internalIsRecording,
                              isInitializing, whisperAPI, voiceDetector,
                              timerVars, recordingChunks, segVars>>
          ELSE /\ isInitializing' = TRUE
               /\ initializationError' = FALSE
               /\ whisperAPI' = TRUE
               /\ UNCHANGED <<mediaRecorder, internalIsRecording,
                              voiceDetector, timerVars, recordingChunks,
                              segVars>>
     ELSE /\ StartBody(mediaRecorder, voiceDetector)
          /\ UNCHANGED <<isInitializing, whisperAPI, voiceDetector>>
  /\ UNCHANGED <<managerVars, now, settings, bound, callVars, dspVars,
                 pendingData, emitted, flips,
                 lastFlipTime, apiVars, storeVars>>

InitOutcomes == {"ok", "noAnalysis", "denied"}

\* new SignalProcessor(analyser.frequencyBinCount): the noise spectrum has
\* one entry per bin
SessionSubtraction ==
  [NewSpectralSubtraction EXCEPT !.noiseSpectrum = [i \in Bins |-> 0]]

\* initializeRecording after getAudioStream settles, then the rest of
\* startRecording
InitializationSettles(outcome) ==
  /\ isInitializing
  /\ isInitializing' = FALSE
  /\ IF outcome = "denied"
     THEN /\ initializationError' = TRUE
          /\ UNCHANGED <<mediaRecorder, internalIsRecording, voiceDetector,
                         timerVars, recordingChunks, segVars>>
     ELSE /\ voiceDetector' = (outcome = "ok")
          /\ StartBody("inactive", outcome = "ok")
  /\ IF outcome = "ok"
     THEN \* setupAudioAnalysis: the detector and the signal processor
          /\ vad' = NewDetector
          /\ subtraction' = SessionSubtraction
          /\ processor' = NewSignalProcessor
     ELSE UNCHANGED <<vad, subtraction, processor>>
  /\ UNCHANGED <<managerVars, now, settings, bound, callVars, applied,
                 whisperAPI, pendingData, ghostVars,
                 apiVars, storeVars>>

\* toggleRecording called on the component while initializeRecording is
\* pending (the Start button of the app component is disabled meanwhile):
\* internalIsRecording is false and mediaRecorder is null, so startRecording
\* runs again and awaits an initializeRecording of its own
StartWhileInitializing ==
  /\ bound.path = "recorder"
  /\ bound.script = "calls"
  /\ isInitializing
  /\ ~internalIsRecording
  /\ mediaRecorder = "null"
  /\ settings.openaiApiKey
  /\ toggles < bound.toggles
  /\ toggles' = toggles + 1
  /\ pendingStarts' = pendingStarts + 1
  /\ initializationError' = FALSE
  /\ UNCHANGED <<managerVars, now, settings, bound, dspVars, orphanTimers,
                 mediaRecorder, internalIsRecording, isInitializing,
                 whisperAPI, voiceDetector, timerVars, mediaVars, segVars,
                 emitted, flips, lastFlipTime, apiVars, storeVars, disposed>>

\* the intervals that lose their handle when setInterval's result is
\* assigned to a timer variable that still holds one
Orphaned(timers, recording, detection, vd) ==
  [recordingTimer |->
     timers.recordingTimer + (IF recording # NoTimer THEN 1 ELSE 0),
   voiceDetectionTimer |->
     timers.voiceDetectionTimer
     + (IF vd /\ detection # NoTimer THEN 1 ELSE 0)]

\* the initializeRecording of such a later call settles, after the first
\* one, and the rest of that startRecording runs: a new MediaRecorder
\* replaces the one in mediaRecorder, and the two setInterval results are
\* assigned whatever the timer variables hold
LaterInitializationSettles(outcome) ==
  /\ pendingStarts > 0
  /\ ~isInitializing
  /\ pendingStarts' = pendingStarts - 1
  /\ UNCHANGED disposed
  /\ IF outcome = "denied"
     THEN /\ initializationError' = TRUE
          /\ UNCHANGED <<mediaRecorder, internalIsRecording, voiceDetector,
                         timerVars, recordingChunks, segVars, orphanTimers>>
     ELSE /\ voiceDetector' = (outcome = "ok")
          /\ StartBody("inactive", outcome = "ok")
          /\ orphanTimers' =
               Orphaned(orphanTimers, recordingTimer, voiceDetectionTimer,
                        outcome = "ok")
  /\ IF outcome = "ok"
     THEN /\ vad' = NewDetector
          /\ subtraction' = SessionSubtraction
          /\ processor' = NewSignalProcessor
     ELSE UNCHANGED <<vad, subtraction, processor>>
  /\ UNCHANGED <<managerVars, now, settings, bound, applied, isInitializing,
                 whisperAPI, pendingData, ghostVars, apiVars, storeVars>>

\* faulty variant: stopRecording leaves the detection interval running
ClearTimersKeepDetection ==
  [recordingTimer |-> NoTimer, voiceDetectionTimer |-> voiceDetectionTimer]

\* clearInterval(recordingTimer) in stopRecording and
\* clearInterval(voiceDetectionTimer) in stopVoiceDetection
ClearTimers ==
  [recordingTimer |-> NoTimer, voiceDetectionTimer |-> NoTimer]

\* toggleRecording while recording: stopRecording (with stopVoiceDetection)
StopRecording(size) ==
  /\ ButtonEnabled
  /\ internalIsRecording
  /\ OnInputGrid
  /\ toggles < bound.toggles
  /\ toggles' = toggles + 1
  /\ IF mediaRecorder = "recording"
     THEN /\ mediaRecorder' = "inactive"
          /\ pendingData' = Append(pendingData, size)
     ELSE UNCHANGED <<mediaRecorder, pendingData>>
  /\ internalIsRecording' = FALSE
  /\ recordingTimer' = ClearTimers.recordingTimer
  /\ voiceDetectionTimer' = ClearTimers.voiceDetectionTimer
  /\ isVoiceActive' = FALSE
  /\ activeRecordingTime' = 0
  /\ totalRecordingTime' = 0
  /\ segmentRecordingTime' = 0
  /\ isSegmentReady' = FALSE
  /\ lastVoiceEndTime' = 0
  /\ wasVoiceActive' = FALSE
  /\ subtraction' = IF voiceDetector THEN resetOn(subtraction)
                    ELSE subtraction    \* signalProcessor.reset()
  /\ UNCHANGED <<managerVars, now, settings, bound, callVars, vad, processor,
                 applied,
                 isInitializing, initializationError,
                 whisperAPI, voiceDetector, restartTimers, recordingChunks,
                 emitted, flips, lastFlipTime, apiVars, storeVars>>

(***************************************************************************)
(* Recorder component: timers                                              *)
(***************************************************************************)
Due(timer) == timer # NoTimer /\ now >= timer

\* faulty variant: the cumulative counter restarts when the segment
\* becomes ready
TickCountersRestart(voice, active, total, seg, ready, duration) ==
  IF voice
  THEN [activeRecordingTime |-> IF seg + 1 >= duration /\ ~ready THEN 0
                                ELSE active + 1,
        totalRecordingTime |-> total + 1,
        segmentRecordingTime |-> seg + 1,
        isSegmentReady |-> IF seg + 1 >= duration /\ ~ready THEN TRUE
                           ELSE ready]
  ELSE [activeRecordingTime |-> active,
        totalRecordingTime |-> total + 1,
        segmentRecordingTime |-> seg,
        isSegmentReady |-> ready]

\* faulty variant: the active counters advance whether or not voice is active
TickCountersUngated(voice, active, total, seg, ready, duration) ==
  [activeRecordingTime |-> active + 1,
   totalRecordingTime |-> total + 1,
   segmentRecordingTime |-> seg + 1,
   isSegmentReady |-> IF seg + 1 >= duration /\ ~ready THEN TRUE ELSE ready]

\* faulty variant: under voice only the segment counter advances
TickCountersSegmentOnly(voice, active, total, seg, ready, duration) ==
  [activeRecordingTime |-> active,
   totalRecordingTime |-> total + 1,
   segmentRecordingTime |-> IF voice THEN seg + 1 ELSE seg,
   isSegmentReady |-> IF voice /\ seg + 1 >= duration /\ ~ready THEN TRUE
                      ELSE ready]

\* the counters after one run of the per-second callback
TickCounters(voice, active, total, seg, ready, duration) ==
  IF voice
  THEN [activeRecordingTime |-> active + 1,
        totalRecordingTime |-> total + 1,
        segmentRecordingTime |-> seg + 1,
        isSegmentReady |-> IF seg + 1 >= duration /\ ~ready THEN TRUE
                           ELSE ready]
  ELSE [activeRecordingTime |-> active,
        totalRecordingTime |-> total + 1,
        segmentRecordingTime |-> seg,
        isSegmentReady |-> ready]

\* the per-second interval callback of startRecording
SecondTick ==
  /\ Due(recordingTimer)
  /\ recordingTimer' = recordingTimer + SecondPeriod
  /\ LET c == TickCounters(isVoiceActive, activeRecordingTime,
                           totalRecordingTime, segmentRecordingTime,
                           isSegmentReady, settings.segmentDuration)
     IN  /\ activeRecordingTime' = c.activeRecordingTime
         /\ totalRecordingTime' = c.totalRecordingTime
         /\ segmentRecordingTime' = c.segmentRecordingTime
         /\ isSegmentReady' = c.isSegmentReady
  /\ UNCHANGED <<managerVars, now, settings, bound, callVars, dspVars,
                 sessionVars, voiceDetectionTimer,
                 restartTimers, mediaVars, isVoiceActive, wasVoiceActive,
                 lastVoiceEndTime, ghostVars, apiVars, storeVars>>

DetectionResults ==
  [isHumanVoice : BOOLEAN, confidence : {MinConfidence, MinConfidence + 1},
   audioLevel : {MIN_AUDIO_LEVEL, MIN_AUDIO_LEVEL + 1}]

voiceDetected(r) ==
  r.isHumanVoice /\ r.confidence > MinConfidence
                 /\ r.audioLevel > MIN_AUDIO_LEVEL

\* the voice state after the edge detection of the detection tick
NextVoiceActive(detected, active) ==
  IF detected /\ ~active THEN TRUE
  ELSE IF ~detected /\ active THEN FALSE
  ELSE active

\* faulty variant: the end of voice is noticed but its instant is not recorded
TrackVoiceChangeNoStamp(active, was, lastEnd, t) ==
  IF ~active /\ was THEN [was |-> FALSE, lastEnd |-> lastEnd]
  ELSE IF active /\ ~was THEN [was |-> TRUE, lastEnd |-> lastEnd]
  ELSE [was |-> was, lastEnd |-> lastEnd]

\* handleSmartSegmentation: the voice-change tracking
TrackVoiceChange(active, was, lastEnd, t) ==
  IF ~active /\ was THEN [was |-> FALSE, lastEnd |-> t]
  ELSE IF active /\ ~was THEN [was |-> TRUE, lastEnd |-> lastEnd]
  ELSE [was |-> was, lastEnd |-> lastEnd]

\* faulty variant: a ready segment is uploaded at the first silent tick
UploadDueNoPause(ready, active, t, lastEnd, threshold) ==
  ready /\ ~active

\* handleSmartSegmentation: the upload condition
UploadDue(ready, active, t, lastEnd, threshold) ==
  ready /\ ~active /\ (t - lastEnd >= threshold)

\* faulty variant: the upload also resets the cumulative counter
ResetSegmentAll(active, total) ==
  [isSegmentReady |-> FALSE, segmentRecordingTime |-> 0,
   activeRecordingTime |-> 0, totalRecordingTime |-> total]

\* handleSmartSegmentation: the timing state after an upload
ResetSegment(active, total) ==
  [isSegmentReady |-> FALSE, segmentRecordingTime |-> 0,
   activeRecordingTime |-> active, totalRecordingTime |-> total]

\* the detection interval callback of startVoiceDetection from the
\* computation of voiceDetected on, with handleSmartSegmentation and
\* uploadCurrentSegment
DetectionTickBody(detected, size) ==
  /\ Due(voiceDetectionTimer)
  /\ voiceDetector
  /\ voiceDetectionTimer' = voiceDetectionTimer + DetectionPeriod
  /\ LET active == NextVoiceActive(detected, isVoiceActive)
         track == TrackVoiceChange(active, wasVoiceActive, lastVoiceEndTime,
                                   now)
         upload == UploadDue(isSegmentReady, active, now, track.lastEnd,
                             settings.pauseThreshold)
         cleared == ResetSegment(activeRecordingTime, totalRecordingTime)
     IN  /\ active # isVoiceActive => flips < bound.flips
         /\ bound.script = "free" /\ active # isVoiceActive => OnInputGrid
         /\ bound.script = "edges" /\ active # isVoiceActive => NearSecondTick
         /\ bound.script = "scenario" /\ ~isSegmentReady /\ flips < 2
              => active
         /\ flips' = IF active # isVoiceActive THEN flips + 1 ELSE flips
         /\ lastFlipTime' = IF active # isVoiceActive THEN now
                             ELSE lastFlipTime
         /\ isVoiceActive' = active
         /\ wasVoiceActive' = track.was
         /\ lastVoiceEndTime' = track.lastEnd
         /\ IF upload
            THEN /\ emitted' = emitted + 1
                 /\ isSegmentReady' = cleared.isSegmentReady
                 /\ segmentRecordingTime' = cleared.segmentRecordingTime
                 /\ activeRecordingTime' = cleared.activeRecordingTime
                 /\ totalRecordingTime' = cleared.totalRecordingTime
                 /\ IF mediaRecorder = "recording"
                    THEN /\ mediaRecorder' = "inactive"
                         /\ pendingData' = Append(pendingData, size)
                         /\ restartTimers' =
                              restartTimers \cup {now + RestartDelay}
                    ELSE UNCHANGED <<mediaRecorder, pendingData,
                                     restartTimers>>
            ELSE UNCHANGED <<emitted, isSegmentReady, segmentRecordingTime,
                             activeRecordingTime, totalRecordingTime,
                             mediaRecorder, pendingData, restartTimers>>
  /\ UNCHANGED <<managerVars, now, settings, bound, callVars,
                 internalIsRecording, isInitializing,
                 initializationError, whisperAPI, voiceDetector,
                 recordingTimer, recordingChunks, toggles, apiVars, storeVars>>

\* the callback with the detector's result given as r
DetectionTick(r, size) ==
  /\ DetectionTickBody(voiceDetected(r), size)
  /\ UNCHANGED dspVars

\* the callback run on the detector and the signal processor themselves.
\* The spectrum handed to processSignal is read from the analyser after
\* detectVoiceActivity has read its own, so it can be a later frame; its
\* magnitudes frequencyData[i] / 255 are counted in 1/(255 * SessionUnit),
\* the noise level in thousandths.
MaxSessionTicks == 2

SessionUnit == 1000 * Pow20(MaxSessionTicks)

\* faulty variant: the audio level is not looked at
voiceDetectedAnyLevel(result) ==
  result.isHumanVoice /\ FloatGreater(result.confidence, <<3, 0>>)

\* detectionResult.isHumanVoice && detectionResult.confidence > 0.3 &&
\* detectionResult.audioLevel > MIN_AUDIO_LEVEL
voiceDetectedBy(result) ==
  /\ result.isHumanVoice
  /\ FloatGreater(result.confidence, <<3, 0>>)
  /\ result.audioLevel > MIN_AUDIO_LEVEL * AudioLevelUnit

SessionSignal(detector, frequencyData, timeData) ==
  processSignalOn(subtraction, processor,
                  [i \in Bins |-> frequencyData[i] * SessionUnit],
                  [i \in Bins |-> ((timeData[i] - 128) * 1000) \div 128],
                  detector.returned[1].isHumanVoice,
                  getBackgroundNoiseLevel(detector)
                    \div (EnergyUnit \div 1000))

SessionTick(data, samples, frequencyData, size) ==
  /\ vad.calls < bound.calls
  /\ Due(voiceDetectionTimer)
  /\ \E detector \in {detectVoiceActivity(vad, data, samples)} :
       \E detected \in {voiceDetectedBy(detector.returned[1])},
          after \in {SessionSignal(detector, frequencyData, samples)} :
         /\ DetectionTickBody(detected, size)
         /\ vad' = detector
         /\ subtraction' = after.subtraction
         /\ processor' = after.processor
  /\ UNCHANGED applied

\* the callback when detectVoiceActivity throws: neither the callback nor
\* the detector catches, so the callback ends there and the interval goes
\* on. A throw during feature extraction leaves the detector as it was, a
\* throw during classification leaves it with its histories updated.
FailureStages == {"extraction", "classification"}

SessionTickFails(stage, data, samples) ==
  /\ Due(voiceDetectionTimer)
  /\ voiceDetector
  /\ stage = "extraction" => data = FrameSilent
  /\ voiceDetectionTimer' = voiceDetectionTimer + DetectionPeriod
  /\ vad' =
       IF stage = "extraction"
       THEN [vad EXCEPT !.failures = @ + 1]
       ELSE [detectVoiceActivity(vad, data, samples) EXCEPT
               !.returned = vad.returned,
               !.calls = vad.calls,
               !.failures = @ + 1]
  /\ UNCHANGED <<managerVars, now, settings, bound, callVars, subtraction,
                 processor,
                 applied, sessionVars, recordingTimer, restartTimers,
                 mediaVars, segVars, ghostVars, apiVars, storeVars>>

\* the restart timeout scheduled by uploadCurrentSegment
RestartRecorder(d) ==
  /\ bound.path = "recorder"
  /\ d \in restartTimers
  /\ now >= d
  /\ restartTimers' = restartTimers \ {d}
  /\ IF internalIsRecording /\ mediaRecorder # "null"
     THEN /\ recordingChunks' = <<>>
          /\ mediaRecorder' = "recording"   \* start() throws when recording
     ELSE UNCHANGED <<mediaRecorder, recordingChunks>>
  /\ UNCHANGED <<managerVars, now, settings, bound, callVars, dspVars,
                 internalIsRecording, isInitializing,
                 initializationError, whisperAPI, voiceDetector,
                 recordingTimer, voiceDetectionTimer, pendingData, segVars,
                 ghostVars, apiVars, storeVars>>

\* the default of the setting the settings tab offers as "Minimum Segment
\* Duration" (1 to 10 seconds); no code of the recorder or of the manager
\* reads it, so the settings variable does not carry it
DEFAULT_SETTINGS == [minSegmentDuration |-> 3]

\* faulty variant: a blob of exactly the minimum size passes
PassesSizeFilterInclusive(audioBlob) == audioBlob >= MinBlobSize

\* the minimum size check of both dataavailable handlers
PassesSizeFilter(audioBlob) == audioBlob > MinBlobSize

\* handleDataAvailable up to its await, with processAudioSegment up to its
\* await
DataAvailable ==
  /\ bound.path = "recorder"
  /\ Len(pendingData) > 0
  /\ pendingData' = Tail(pendingData)
  /\ LET size == Head(pendingData)
         chunks == Append(recordingChunks, size)
         audioBlob == Sum(chunks)
     IN  IF size > 0
         THEN IF PassesSizeFilter(audioBlob)
              THEN /\ recordingChunks' = chunks
                   /\ transcriptSegments' =
                        handleNewSegment(transcriptSegments,
                          [id |-> Len(requests) + 1, timestamp |-> now,
                           text |-> <<>>, isProcessing |-> TRUE], now)
                   /\ Transcribe("recorder", audioBlob)
                   /\ UNCHANGED errorLog
              ELSE /\ recordingChunks' = <<>>
                   /\ UNCHANGED <<apiVars, storeVars>>
         ELSE UNCHANGED <<recordingChunks, apiVars, storeVars>>
  /\ UNCHANGED <<managerVars, now, settings, bound, callVars, dspVars,
                 sessionVars, timerVars, segVars,
                 ghostVars>>

\* time passes while a timer is pending: nothing is due and no event is
\* queued (with no timer pending the clock is not observed)
AdvanceTime ==
  /\ internalIsRecording \/ restartTimers # {} \/ segmentTimers # {}
  /\ now + DetectionPeriod <= bound.time
  /\ ~Due(recordingTimer)
  /\ ~Due(voiceDetectionTimer)
  /\ \A d \in restartTimers \cup segmentTimers : now < d
  /\ Len(pendingData) = 0
  /\ now' = now + DetectionPeriod
  /\ UNCHANGED <<managerVars, settings, bound, callVars, dspVars, sessionVars,
                 timerVars,
                 mediaVars, segVars, ghostVars, apiVars, storeVars>>

\* a long idle period while a response is outstanding: nothing is recording,
\* no timer is pending, and the clock moves on by the staleness window
LongPause ==
  /\ ~internalIsRecording
  /\ ~isRecording
  /\ restartTimers = {}
  /\ segmentTimers = {}
  /\ Len(pendingData) = 0
  /\ Len(loops) > 0
  /\ now < Epoch + StaleAge
  /\ now' = now + StaleAge
  /\ UNCHANGED <<managerVars, settings, bound, callVars, dspVars, sessionVars,
                 timerVars,
                 mediaVars, segVars, ghostVars, apiVars, storeVars>>

(***************************************************************************)
(* SegmentManager with its AudioRecorder, driven by the VoiceRecorder      *)
(* component                                                               *)
(***************************************************************************)
\* toggleRecording while not recording: initializeRecorder on first use
\* (the button is disabled during its await), then
\* SegmentManager.startRecording -> AudioRecorder.startRecording
ManagerStart(outcome) ==
  /\ bound.path = "manager"
  /\ ~disposed                                         \* component destroyed
  /\ ~isRecording
  /\ ~(initializationError /\ ~settings.openaiApiKey)   \* button disabled
  /\ OnInputGrid
  /\ toggles < bound.toggles
  /\ toggles' = toggles + 1
  /\ IF ~isInitialized /\ ~settings.openaiApiKey
     THEN \* initializeRecorder returns before creating the SegmentManager
          /\ initializationError' = TRUE
          /\ UNCHANGED <<errorLog, isInitialized, isRecording, mediaRecorder,
                         recordingChunks, segmentTimers>>
     ELSE IF ~isInitialized /\ outcome = "denied"
     THEN \* AudioRecorder.initialize and SegmentManager.initialize both
          \* report the capture error
          /\ errorLog' = errorLog \o <<0, 0>>
          /\ initializationError' = TRUE
          /\ UNCHANGED <<isInitialized, isRecording, mediaRecorder,
                         recordingChunks, segmentTimers>>
     ELSE IF mediaRecorder = "recording"
     THEN \* mediaRecorder.start() throws after isRecording was set
          /\ isRecording' = TRUE
          /\ recordingChunks' = <<>>
          /\ errorLog' = Append(errorLog, 0)
          /\ initializationError' = TRUE
          /\ UNCHANGED <<isInitialized, mediaRecorder, segmentTimers>>
     ELSE /\ isInitialized' = TRUE
          /\ isRecording' = TRUE
          /\ recordingChunks' = <<>>
          /\ mediaRecorder' = "recording"
          /\ segmentTimers' =
               segmentTimers \cup {now + settings.segmentDuration * 1000}
          /\ initializationError' =
               IF isInitialized THEN initializationError ELSE FALSE
          /\ UNCHANGED errorLog
  /\ UNCHANGED <<now, settings, bound, callVars, dspVars,
                 internalIsRecording, isInitializing,
                 whisperAPI, voiceDetector, timerVars, pendingData, segVars,
                 emitted, flips, lastFlipTime, apiVars, transcriptSegments,
                 segments>>

\* toggleRecording while recording: AudioRecorder.stopRecording
ManagerStop(size) ==
  /\ bound.path = "manager"
  /\ ~disposed
  /\ isRecording
  /\ OnInputGrid
  /\ toggles < bound.toggles
  /\ toggles' = toggles + 1
  /\ isRecording' = FALSE
  /\ IF mediaRecorder = "recording"
     THEN /\ mediaRecorder' = "inactive"
          /\ pendingData' = Append(pendingData, size)
          /\ segmentTimers' = {}
     ELSE \* mediaRecorder.stop() throws on an inactive recorder, before
          \* the interval is cleared
          UNCHANGED <<mediaRecorder, pendingData, segmentTimers>>
  /\ UNCHANGED <<now, settings, bound, callVars, dspVars,
                 internalIsRecording, isInitializing,
                 initializationError, whisperAPI, voiceDetector, timerVars,
                 recordingChunks, segVars, emitted, flips, lastFlipTime,
                 apiVars, storeVars, segments, isInitialized>>

\* the interval callback of AudioRecorder.startSegmentTimer
SegmentTick(d, size) ==
  /\ d \in segmentTimers
  /\ now >= d
  /\ segmentTimers' =
       (segmentTimers \ {d}) \cup {d + settings.segmentDuration * 1000}
  /\ IF isRecording /\ mediaRecorder = "recording"
     THEN /\ mediaRecorder' = "inactive"
          /\ pendingData' = Append(pendingData, size)
          /\ restartTimers' = restartTimers \cup {now + RestartDelay}
     ELSE UNCHANGED <<mediaRecorder, pendingData, restartTimers>>
  /\ UNCHANGED <<now, settings, bound, callVars, dspVars,
                 internalIsRecording, isInitializing,
                 initializationError, whisperAPI, voiceDetector,
                 recordingTimer, voiceDetectionTimer, recordingChunks,
                 segVars, ghostVars, apiVars, storeVars, segments,
                 isInitialized, isRecording>>

\* the restart timeout scheduled by the segment interval callback
ManagerRestart(d) ==
  /\ bound.path = "manager"
  /\ d \in restartTimers
  /\ now >= d
  /\ restartTimers' = restartTimers \ {d}
  /\ IF isRecording
     THEN /\ recordingChunks' = <<>>
          /\ mediaRecorder' = "recording"   \* start() throws when recording
     ELSE UNCHANGED <<mediaRecorder, recordingChunks>>
  /\ UNCHANGED <<managerVars, now, settings, bound, callVars, dspVars,
                 internalIsRecording,
                 isInitializing, initializationError, whisperAPI,
                 voiceDetector, recordingTimer, voiceDetectionTimer,
                 pendingData, segVars, ghostVars, apiVars, storeVars>>

\* AudioRecorder.handleDataAvailable with SegmentManager.handleAudioSegment
\* up to its await
ManagerDataAvailable ==
  /\ bound.path = "manager"
  /\ Len(pendingData) > 0
  /\ pendingData' = Tail(pendingData)
  /\ LET size == Head(pendingData)
         chunks == Append(recordingChunks, size)
         audioBlob == Sum(chunks)
     IN  IF size > 0
         THEN /\ recordingChunks' = chunks
              /\ IF PassesSizeFilter(audioBlob)
                 THEN /\ segments' =
                           (Len(requests) + 1 :>
                              [id |-> Len(requests) + 1, timestamp |-> now,
                               text |-> <<>>, isProcessing |-> TRUE])
                           @@ segments
                      /\ Transcribe("manager", audioBlob)
                 ELSE UNCHANGED <<apiVars, segments>>
         ELSE UNCHANGED <<recordingChunks, apiVars, segments>>
  /\ UNCHANGED <<now, settings, bound, callVars, dspVars, sessionVars,
                 timerVars, segVars,
                 ghostVars, storeVars, isInitialized, isRecording,
                 segmentTimers>>

MsgCancelled ==
  <<"R", "e", "q", "u", "e", "s", "t", " ", "c", "a", "n", "c", "e", "l",
    "l", "e", "d">>

\* the requests clearQueue rejects: those still in the queue
Cancelled(reqs, q) ==
  [id \in 1..Len(reqs) |->
     IF \E k \in 1..Len(q) : q[k] = id
     THEN [reqs[id] EXCEPT !.status = "rejected", !.error = MsgCancelled,
                           !.settledToggle = toggles]
     ELSE reqs[id]]

\* onDestroy of the VoiceRecorder component: SegmentManager.dispose(), that
\* is AudioRecorder.dispose() (stopRecording, release of the devices),
\* whisperAPI.clearQueue(), segments.clear(), isInitialized = false.  The
\* rejections of clearQueue reach the awaiting handleAudioSegment calls
\* after dispose has returned.
Dispose(size) ==
  /\ bound.path = "manager"
  /\ bound.script = "dispose"
  /\ ~disposed
  /\ isInitialized                           \* if (segmentManager)
  /\ OnInputGrid
  /\ IF isRecording /\ mediaRecorder = "inactive"
     THEN \* mediaRecorder.stop() throws on an inactive recorder: dispose
          \* does not return
          /\ isRecording' = FALSE
          /\ UNCHANGED <<mediaRecorder, pendingData, segmentTimers,
                         requests, requestQueue, segments, isInitialized,
                         disposed>>
     ELSE /\ isRecording' = FALSE
          /\ pendingData' = IF isRecording THEN Append(pendingData, size)
                            ELSE pendingData
          /\ segmentTimers' = IF isRecording THEN {} ELSE segmentTimers
          /\ mediaRecorder' = "null"
          /\ requests' = Cancelled(requests, requestQueue)
          /\ requestQueue' = <<>>
          /\ segments' = <<>>                 \* this.segments.clear()
          /\ isInitialized' = FALSE
          /\ disposed' = TRUE
  /\ UNCHANGED <<now, settings, bound, dspVars, pendingStarts, orphanTimers,
                 internalIsRecording, isInitializing, initializationError,
                 whisperAPI, voiceDetector, timerVars, recordingChunks,
                 segVars, ghostVars, isProcessing, loops, startOrder,
                 storeVars>>

\* the catch block of handleAudioSegment for a request that clearQueue
\* rejected during dispose
RejectionDelivered(id) ==
  /\ id \in 1..Len(requests)
  /\ requests[id].owner = "manager"
  /\ requests[id].status = "rejected"
  /\ requests[id].completions = 0
  /\ requests' = [requests EXCEPT ![id].completions = @ + 1]
  /\ ApplyWorld(Continue(World, id, requests[id], FALSE, <<>>, now))
  /\ UNCHANGED <<requestQueue, isProcessing, loops, startOrder>>
  /\ UNCHANGED <<isInitialized, isRecording, segmentTimers, now, settings,
                 bound, callVars, dspVars, sessionVars, timerVars,
                 pendingData, segVars,
                 ghostVars>>

ManagerNext ==
  \/ \E o \in {"ok", "denied"} : ManagerStart(o)
  \/ \E size \in BlobSizes : ManagerStop(size)
  \/ \E d \in segmentTimers, size \in BlobSizes : SegmentTick(d, size)
  \/ \E d \in restartTimers : ManagerRestart(d)
  \/ ManagerDataAvailable

\* WhisperAPI.clearQueue: every queued request is rejected
RECURSIVE RejectAll(_, _, _, _)
RejectAll(W, reqs, q, t) ==
  IF q = <<>> THEN W
  ELSE RejectAll(Continue(W, Head(q), reqs[Head(q)], FALSE, <<>>, t),
                 reqs, Tail(q), t)

ClearQueue ==
  /\ Len(requestQueue) > 0
  /\ requests' = [id \in 1..Len(requests) |->
                    IF \E k \in 1..Len(requestQueue) : requestQueue[k] = id
                    THEN [requests[id] EXCEPT
                            !.status = "rejected",
                            !.error = MsgCancelled,
                            !.settledToggle = toggles,
                            !.completions =
                               IF Completes(requests[id], FALSE, <<>>)
                               THEN @ + 1 ELSE @]
                    ELSE requests[id]]
  /\ requestQueue' = <<>>
  /\ ApplyWorld(RejectAll(World, requests, requestQueue, now))
  /\ UNCHANGED <<isProcessing, loops, startOrder>>
  /\ UNCHANGED <<isInitialized, isRecording, segmentTimers, now, settings,
                 bound, callVars, dspVars, sessionVars, timerVars,
                 pendingData, segVars,
                 ghostVars>>

\* a direct client of WhisperAPI calls transcribe()
ApiCall(blob) ==
  /\ Len(requests) < bound.requests
  /\ Transcribe("client", blob)
  /\ UNCHANGED <<managerVars, now, settings, bound, callVars, dspVars,
                 sessionVars, timerVars,
                 mediaVars,
                 segVars, ghostVars, storeVars>>

(***************************************************************************)
(* The two segment stores, updated alone                                   *)
(*                                                                         *)
(* transcriptSegments of the app component receives handleNewSegment       *)
(* calls, the Map of SegmentManager receives segments.set calls; the       *)
(* segments were created shortly before the first update arrives.          *)
(***************************************************************************)
MaxUpdates == 4
MaxSegmentId == 2

SegmentIds == 1 .. MaxSegmentId

CreatedAt(id) == Epoch - SecondPeriod * id

Updates ==
  {[id |-> id, timestamp |-> CreatedAt(id), text |-> TextEmpty,
    isProcessing |-> TRUE] : id \in SegmentIds}
  \cup {[id |-> id, timestamp |-> CreatedAt(id), text |-> text,
         isProcessing |-> FALSE] :
          id \in SegmentIds, text \in {TextHi, FailedMarker}}

TextTwoLines == <<"h", "\n", "i">>

\* the segments the manager stores: text is whisperResponse.text.trim() or
\* the failure marker
Transcripts ==
  Updates \cup {[id |-> id, timestamp |-> CreatedAt(id),
                 text |-> TextTwoLines, isProcessing |-> FALSE] :
                  id \in SegmentIds}

\* this.segments.set(id, segment)
SegmentsSet(map, segment) == (segment.id :> segment) @@ map

\* a Map keeps its keys in insertion order; setting a key it holds keeps
\* the key where it is
KeysSet(keys, id) ==
  IF \E k \in 1 .. Len(keys) : keys[k] = id THEN keys ELSE Append(keys, id)

\* Array.prototype.sort with (a, b) => a.timestamp - b.timestamp: stable
RECURSIVE SortByTimestamp(_)
SortByTimestamp(values) ==
  IF values = <<>> THEN <<>>
  ELSE LET rest == SortByTimestamp(Tail(values))
           first == Head(values)
           before == SelectSeq(rest, LAMBDA v : v.timestamp < first.timestamp)
           after == SelectSeq(rest, LAMBDA v : v.timestamp >= first.timestamp)
       IN before \o <<first>> \o after

getAllSegments(map, keys) ==
  SortByTimestamp([k \in 1 .. Len(keys) |-> map[keys[k]]])

\* lines.join('\n')
RECURSIVE Join(_)
Join(lines) ==
  IF lines = <<>> THEN <<>>
  ELSE IF Len(lines) = 1 THEN lines[1]
  ELSE lines[1] \o <<"\n">> \o Join(Tail(lines))

\* exportTranscript() with its default options: text format, no timestamps
exportTranscript(map, keys) ==
  LET exported ==
        SelectSeq(getAllSegments(map, keys), LAMBDA v : ~v.isProcessing)
  IN Join([k \in 1 .. Len(exported) |-> exported[k].text])

\* a handleNewSegment call; applied keeps the segment, the instant and the
\* store the call found
ViewUpdate(segment) ==
  /\ bound.path = "recorder"
  /\ Len(applied) < bound.updates
  /\ transcriptSegments' = handleNewSegment(transcriptSegments, segment, now)
  /\ applied' = Append(applied, [segment |-> segment, time |-> now,
                                 before |-> transcriptSegments])
  /\ UNCHANGED <<now, settings, bound, callVars, sessionVars, timerVars,
                 mediaVars,
                 segVars, ghostVars, apiVars, errorLog, managerVars, vad,
                 subtraction, processor>>

ManagerSet(segment) ==
  /\ bound.path = "manager"
  /\ segments' = SegmentsSet(segments, segment)
  /\ applied' = KeysSet(applied, segment.id)
  /\ UNCHANGED <<now, settings, bound, callVars, sessionVars, timerVars,
                 mediaVars,
                 segVars, ghostVars, apiVars, storeVars, isInitialized,
                 isRecording, segmentTimers, vad, subtraction, processor>>

\* half a staleness window passes
StoreTimePasses ==
  /\ now < Epoch + StaleAge
  /\ now' = now + StaleAge \div 2
  /\ UNCHANGED <<settings, bound, callVars, sessionVars, timerVars, mediaVars,
                 segVars,
                 ghostVars, apiVars, storeVars, managerVars, dspVars>>

(***************************************************************************)
(* Initial states and specifications                                       *)
(***************************************************************************)
\* the pipeline after construction, the detector apart
InitPipeline(s, b) ==
  /\ now = Epoch
  /\ settings = s
  /\ bound = b
  /\ mediaRecorder = "null"
  /\ internalIsRecording = FALSE
  /\ isInitializing = FALSE
  /\ initializationError = FALSE
  /\ whisperAPI = FALSE
  /\ voiceDetector = FALSE
  /\ recordingTimer = NoTimer
  /\ voiceDetectionTimer = NoTimer
  /\ restartTimers = {}
  /\ pendingData = <<>>
  /\ recordingChunks = <<>>
  /\ isVoiceActive = FALSE
  /\ wasVoiceActive = FALSE
  /\ activeRecordingTime = 0
  /\ totalRecordingTime = 0
  /\ segmentRecordingTime = 0
  /\ isSegmentReady = FALSE
  /\ lastVoiceEndTime = 0
  /\ emitted = 0
  /\ flips = 0
  /\ lastFlipTime = 0
  /\ toggles = 0
  /\ requests = <<>>
  /\ requestQueue = <<>>
  /\ isProcessing = FALSE
  /\ loops = <<>>
  /\ startOrder = <<>>
  /\ transcriptSegments = <<>>
  /\ errorLog = <<>>
  /\ segments = <<>>
  /\ isInitialized = FALSE
  /\ isRecording = FALSE
  /\ segmentTimers = {}
  /\ applied = <<>>
  /\ pendingStarts = 0
  /\ orphanTimers = [recordingTimer |-> 0, voiceDetectionTimer |-> 0]
  /\ disposed = FALSE

InitState(s, b) ==
  /\ InitPipeline(s, b)
  /\ vad = NewDetector
  /\ subtraction = NewSpectralSubtraction
  /\ processor = NewSignalProcessor

SegSettings ==
  [openaiApiKey : {TRUE}, segmentDuration : {1, 2}, pauseThreshold : {50, 500}]

Paths == {"recorder", "manager"}

InitSeg ==
  \E s \in SegSettings, p \in Paths :
    InitState(s, [time |-> Epoch + MaxTime, flips |-> MaxFlips,
                  toggles |-> MaxToggles, requests |-> 0, script |-> "free",
                  path |-> p, replies |-> "one", keyChanges |-> 0])

RecorderNext ==
  \/ StartRecording
  \/ \E o \in InitOutcomes : InitializationSettles(o)
  \/ \E size \in BlobSizes : StopRecording(size)
  \/ SecondTick
  \/ \E r \in DetectionResults, size \in BlobSizes : DetectionTick(r, size)
  \/ \E d \in restartTimers : RestartRecorder(d)
  \/ DataAvailable
  \/ AdvanceTime
  \/ LongPause

ApiNext ==
  \/ \E i \in 1..Len(loops), o \in FetchOutcomes : FetchReturns(i, o)
  \/ \E i \in 1..Len(loops) : BackoffElapsed(i)
  \/ \E i \in 1..Len(loops) : GapElapsed(i)

Next == RecorderNext \/ ManagerNext \/ ApiNext

\* the scenario has no stop
NextScenario ==
  \/ StartRecording
  \/ \E o \in InitOutcomes : InitializationSettles(o)
  \/ SecondTick
  \/ \E r \in DetectionResults, size \in BlobSizes : DetectionTick(r, size)
  \/ \E d \in restartTimers : RestartRecorder(d)
  \/ DataAvailable
  \/ AdvanceTime
  \/ ApiNext

\* WhisperAPI alone, driven by direct clients
MaxRequests == 3

InitApi ==
  InitState([openaiApiKey |-> TRUE, segmentDuration |-> 8,
             pauseThreshold |-> 1000],
            [time |-> Epoch, flips |-> 0, toggles |-> 0,
             requests |-> MaxRequests, script |-> "free",
             path |-> "recorder", replies |-> "all", keyChanges |-> 0])

NextApi ==
  \/ \E blob \in {MinBlobSize + 1} : ApiCall(blob)
  \/ ApiNext
  \/ ClearQueue

SpecApi == InitApi /\ [][NextApi]_vars

\* the VoiceRecorder component with its SegmentManager, destroyed at any
\* moment
MaxDisposeToggles == 4

InitDispose ==
  InitState([openaiApiKey |-> TRUE, segmentDuration |-> 8,
             pauseThreshold |-> 1000],
            [time |-> Epoch, flips |-> 0,
             toggles |-> MaxDisposeToggles, requests |-> 0,
             script |-> "dispose", path |-> "manager", replies |-> "one",
             keyChanges |-> 0])

NextDispose ==
  \/ \E o \in {"ok", "denied"} : ManagerStart(o)
  \/ ManagerStop(MinBlobSize + 1)
  \/ ManagerDataAvailable
  \/ Dispose(MinBlobSize + 1)
  \/ \E id \in 1..Len(requests) : RejectionDelivered(id)
  \/ ApiNext

SpecDispose == InitDispose /\ [][NextDispose]_vars

\* WhisperAPI alone under fair scheduling: every fetch returns (the network
\* call terminates) and every setTimeout of delay() fires
MaxFairRequests == 3

InitApiFair ==
  InitState([openaiApiKey |-> TRUE, segmentDuration |-> 8,
             pauseThreshold |-> 1000],
            [time |-> Epoch, flips |-> 0, toggles |-> 0,
             requests |-> MaxFairRequests, script |-> "stages",
             path |-> "recorder", replies |-> "one", keyChanges |-> 0])

FetchReturnsSome ==
  \E i \in 1..Len(loops), o \in FetchOutcomes : FetchReturns(i, o)

BackoffElapsedSome == \E i \in 1..Len(loops) : BackoffElapsed(i)

GapElapsedSome == \E i \in 1..Len(loops) : GapElapsed(i)

NextApiFair ==
  \/ \E blob \in {MinBlobSize + 1} : ApiCall(blob)
  \/ FetchReturnsSome
  \/ BackoffElapsedSome
  \/ GapElapsedSome
  \/ ClearQueue

SpecApiFair ==
  /\ InitApiFair
  /\ [][NextApiFair]_vars
  /\ WF_vars(FetchReturnsSome)
  /\ WF_vars(BackoffElapsedSome)
  /\ WF_vars(GapElapsedSome)

\* WhisperAPI alone with its delays timed: a timer fires at its instant or
\* later, a fetch takes any time
MaxQueueTime == 1400
QueueStep == QueueGap

QueueTimePasses ==
  /\ Timed
  /\ now + QueueStep <= bound.time
  /\ now' = now + QueueStep
  /\ UNCHANGED <<settings, bound, callVars, sessionVars, timerVars, mediaVars,
                 segVars,
                 ghostVars, apiVars, storeVars, managerVars, dspVars>>

InitQueue ==
  InitState([openaiApiKey |-> TRUE, segmentDuration |-> 8,
             pauseThreshold |-> 1000],
            [time |-> Epoch + MaxQueueTime, flips |-> 0, toggles |-> 0,
             requests |-> MaxRequests, script |-> "timed",
             path |-> "recorder", replies |-> "one", keyChanges |-> 0])

NextQueue ==
  \/ NextApi
  \/ QueueTimePasses

SpecQueue == InitQueue /\ [][NextQueue]_vars

\* the API key is edited in the settings tab
ChangeApiKey ==
  /\ bound.keyChanges > 0
  /\ ~isInitializing
  /\ bound' = [bound EXCEPT !.keyChanges = @ - 1]
  /\ settings' = [settings EXCEPT !.openaiApiKey = ~@]
  /\ UNCHANGED <<managerVars, now, dspVars, sessionVars, timerVars, mediaVars,
                 segVars, ghostVars, apiVars, storeVars, callVars>>

\* starting and stopping while the API key comes and goes; the clock stands
MaxKeyChanges == 2
MaxKeyToggles == 3

InitKey ==
  \E key \in BOOLEAN, p \in Paths :
    InitState([openaiApiKey |-> key, segmentDuration |-> 8,
               pauseThreshold |-> 1000],
              [time |-> Epoch, flips |-> 0, toggles |-> MaxKeyToggles,
               requests |-> 0, script |-> "free", path |-> p,
               replies |-> "one", keyChanges |-> MaxKeyChanges])

NextKey ==
  \/ ChangeApiKey
  \/ StartRecording
  \/ \E o \in InitOutcomes : InitializationSettles(o)
  \/ \E size \in BlobSizes : StopRecording(size)
  \/ DataAvailable
  \/ \E o \in {"ok", "denied"} : ManagerStart(o)
  \/ \E size \in BlobSizes : ManagerStop(size)
  \/ ManagerDataAvailable
  \/ ApiNext

SpecKey == InitKey /\ [][NextKey]_vars

Spec == InitSeg /\ [][Next]_vars


(***************************************************************************)
(* The segmentation scenario: segmentDuration 8 s, pauseThreshold 1000 ms, *)
(* continuous voice until the segment is ready, then silence               *)
(***************************************************************************)
MaxTimeScenario == 9300

InitScenario ==
  InitState([openaiApiKey |-> TRUE, segmentDuration |-> 8,
             pauseThreshold |-> 1000],
            [time |-> Epoch + MaxTimeScenario, flips |-> 2, toggles |-> 1,
             requests |-> 0, script |-> "scenario", path |-> "recorder",
             replies |-> "one", keyChanges |-> 0])

SpecScenario == InitScenario /\ [][NextScenario]_vars

\* the detector alone: it has run WarmUp ticks on a steady input, then any
\* of the frames can arrive
MaxCalls == 2

WarmUps == {0, NoiseBufferSize - 11, NoiseBufferSize}

WarmFrames == {FrameSilent, FrameWhiteNoise}

InitDetector ==
  \E n \in WarmUps, data \in WarmFrames :
    /\ InitPipeline([openaiApiKey |-> TRUE, segmentDuration |-> 8,
                     pauseThreshold |-> 1000],
                    [time |-> Epoch, flips |-> 0, toggles |-> 0,
                     requests |-> 0, script |-> "free", path |-> "recorder",
                     replies |-> "one", keyChanges |-> 0,
                     calls |-> n + MaxCalls])
    /\ vad = Repeat(NewDetector, n, data, SamplesFlat)
    /\ subtraction = NewSpectralSubtraction
    /\ processor = NewSignalProcessor

NextDetector == DetectorTick

SpecDetector == InitDetector /\ [][NextDetector]_vars

\* the noise suppressor alone, called in any order
InitSuppressor ==
  InitState([openaiApiKey |-> TRUE, segmentDuration |-> 8,
             pauseThreshold |-> 1000],
            [time |-> Epoch, flips |-> 0, toggles |-> 0, requests |-> 0,
             script |-> "free", path |-> "recorder", replies |-> "one",
             keyChanges |-> 0, suppressorCalls |-> MaxSuppressorCalls])

NextSuppressor ==
  \/ \E spectrum \in Spectra, isVoice \in BOOLEAN :
       updateNoiseEstimate(spectrum, isVoice)
  \/ \E spectrum \in Spectra : suppress(spectrum)
  \/ reset

SpecSuppressor == InitSuppressor /\ [][NextSuppressor]_vars

\* the SignalProcessor and the SpectralSubtraction it owns
NextProcessor ==
  \/ NextSuppressor
  \/ \E spectrum \in Spectra, timeSignal \in TimeSignals,
        isVoice \in BOOLEAN, level \in NoiseLevels :
       processSignal(spectrum, timeSignal, isVoice, level)
  \/ \E enabled \in BOOLEAN : setEnabled(enabled)

SpecProcessor == InitSuppressor /\ [][NextProcessor]_vars

\* the recorder with its detector and signal processor during the first
\* instants of its sessions: the per-second callback is not due yet, the
\* blobs are empty, toggles and ticks happen at any instant
MaxSessionTime == 20
MaxSessionToggles == 3

SessionFrames == {FrameSilent, FrameTone, FrameWhiteNoise, FrameSpeech}

InitSession ==
  InitState([openaiApiKey |-> TRUE, segmentDuration |-> 8,
             pauseThreshold |-> 1000],
            [time |-> Epoch + MaxSessionTime, flips |-> MaxSessionTicks + 1,
             toggles |-> MaxSessionToggles, requests |-> 0,
             script |-> "timed", path |-> "recorder", replies |-> "one",
             keyChanges |-> 0, calls |-> MaxSessionTicks])

NextSession ==
  \/ StartRecording
  \/ \E o \in InitOutcomes : InitializationSettles(o)
  \/ StopRecording(0)
  \/ DataAvailable
  \/ \E data \in SessionFrames, samples \in {SamplesVoiced} :
       \E frequencyData \in {data, FrameSilent} :
         SessionTick(data, samples, frequencyData, 0)
  \/ \E stage \in FailureStages, data \in SessionFrames :
       SessionTickFails(stage, data, SamplesVoiced)
  \/ AdvanceTime

SpecSession == InitSession /\ [][NextSession]_vars

\* the recorder with the shortest segments and pauses: a segment of one
\* second, a pause of 50 ms, the speaker starting and stopping around the
\* per-second ticks
MaxGapTime == 2100
MaxGapFlips == 4
MaxGapToggles == 3

InitGap ==
  InitState([openaiApiKey |-> TRUE, segmentDuration |-> 1,
             pauseThreshold |-> 50],
            [time |-> Epoch + MaxGapTime, flips |-> MaxGapFlips,
             toggles |-> MaxGapToggles,
             requests |-> 0, script |-> "edges", path |-> "recorder",
             replies |-> "one", keyChanges |-> 0])

NextGap ==
  \/ StartRecording
  \/ \E o \in InitOutcomes : InitializationSettles(o)
  \/ StopRecording(MinBlobSize + 1)
  \/ SecondTick
  \/ \E r \in DetectionResults : DetectionTick(r, MinBlobSize + 1)
  \/ \E d \in restartTimers : RestartRecorder(d)
  \/ DataAvailable
  \/ AdvanceTime

SpecGap == InitGap /\ [][NextGap]_vars

\* toggleRecording called on the recorder component directly, also while
\* an initialization is pending; the runs end before the first interval is
\* due
MaxCallToggles == 4

InitCalls ==
  InitState([openaiApiKey |-> TRUE, segmentDuration |-> 8,
             pauseThreshold |-> 1000],
            [time |-> Epoch, flips |-> 0, toggles |-> MaxCallToggles,
             requests |-> 0, script |-> "calls", path |-> "recorder",
             replies |-> "one", keyChanges |-> 0])

NextCalls ==
  \/ StartRecording
  \/ StartWhileInitializing
  \/ \E o \in InitOutcomes : InitializationSettles(o)
  \/ \E o \in InitOutcomes : LaterInitializationSettles(o)
  \/ \E size \in BlobSizes : StopRecording(size)
  \/ DataAvailable

SpecCalls == InitCalls /\ [][NextCalls]_vars

\* the two segment stores alone: the store of the app component under the
\* recorder, the Map under the manager
InitStore ==
  \E path \in Paths :
    InitState([openaiApiKey |-> TRUE, segmentDuration |-> 8,
               pauseThreshold |-> 1000],
              [time |-> Epoch, flips |-> 0, toggles |-> 0, requests |-> 0,
               script |-> "free", path |-> path, replies |-> "one",
               keyChanges |-> 0, updates |-> MaxUpdates])

NextStore ==
  \/ \E segment \in Updates : ViewUpdate(segment)
  \/ \E segment \in Transcripts : ManagerSet(segment)
  \/ StoreTimePasses

SpecStore == InitStore /\ [][NextStore]_vars

(***************************************************************************)
(* Properties                                                              *)
(***************************************************************************)

\* C1: every upload decided by handleSmartSegmentation happens with the
\* segment ready, voice inactive and at least pauseThreshold ms since the
\* recorded end of voice; no upload happens in a tick that leaves voice
\* active, however long the segment already is.
C1_UploadOnlyAfterPause ==
  [][emitted' # emitted =>
       /\ isSegmentReady
       /\ ~isVoiceActive'
       /\ now' - lastVoiceEndTime' >= settings.pauseThreshold
       /\ now' - lastFlipTime' >= settings.pauseThreshold]_vars

C1_Witness ==
  /\ emitted > 0
  /\ ~isVoiceActive
  /\ lastVoiceEndTime > 0

\* C2: in the scenario no upload happens before voice has stopped for
\* 1000 ms, exactly one upload happens once it has, and that upload leaves
\* segmentRecordingTime at 0 and activeRecordingTime at the 8 s (or more) it
\* had reached.
C2_ScenarioOneUpload ==
  /\ emitted <= 1
  /\ emitted = 1 => /\ flips = 2
                    /\ now - lastFlipTime >= settings.pauseThreshold
                    /\ segmentRecordingTime = 0
                    /\ ~isSegmentReady
                    /\ activeRecordingTime >= settings.segmentDuration
  /\ flips = 2 /\ now - lastFlipTime > settings.pauseThreshold
       => emitted = 1

C2_Witness ==
  /\ emitted = 1
  /\ settings.segmentDuration = 8
  /\ activeRecordingTime = 8
  /\ segmentRecordingTime = 0
  /\ now - lastFlipTime >= 1000

\* C3: an upload resets isSegmentReady and segmentRecordingTime and leaves
\* activeRecordingTime and totalRecordingTime as they were.
C3_UploadResetsSegmentOnly ==
  [][emitted' # emitted =>
       /\ ~isSegmentReady'
       /\ segmentRecordingTime' = 0
       /\ activeRecordingTime' = activeRecordingTime
       /\ totalRecordingTime' = totalRecordingTime]_vars

C3_Witness ==
  /\ emitted > 0
  /\ segmentRecordingTime = 0
  /\ activeRecordingTime > 0
  /\ totalRecordingTime > 0

\* C4: while the session stays active, no step lowers activeRecordingTime.
C4_ActiveTimeMonotonic ==
  [][internalIsRecording /\ internalIsRecording' =>
       activeRecordingTime' >= activeRecordingTime]_vars

C4_Witness ==
  /\ internalIsRecording
  /\ emitted > 0
  /\ activeRecordingTime > 0


\* C5: at most one request is in flight, requests start in the order they
\* were enqueued, and a request that is being retried keeps the slot: every
\* request started before the latest one is settled.
Active(id) == requests[id].status = "active"

C5_SequentialRequests ==
  /\ Cardinality({id \in 1..Len(requests) : Active(id)}) <= 1
  /\ Cardinality(InFlight) <= 1
  /\ \A j, k \in 1..Len(startOrder) : j < k => startOrder[j] < startOrder[k]
  /\ \A k \in 1..(Len(startOrder) - 1) :
       requests[startOrder[k]].status \in {"resolved", "rejected"}
  /\ \A k \in 1..Len(requestQueue) :
       requests[requestQueue[k]].status = "queued"

C5_Witness ==
  /\ \E i \in 1..Len(loops) : loops[i].pc = "backoff"
  /\ Len(requestQueue) > 0
  /\ Len(startOrder) >= 2

\* C6: a failed request is retried only for the errors classified transient,
\* at most 3 times, after delays of 1000, 2000 and 4000 ms; two transient
\* failures followed by a success give the delays 1000, 2000 and a resolved
\* request; a non-transient failure is rejected without a retry.
TransientMessages == {MsgNetworkError, Msg503, Msg429}
ExpectedDelays == <<1000, 2000, 4000>>

C6_RetryPolicy ==
  /\ \A id \in 1..Len(requests) :
       LET r == requests[id]
       IN  /\ Len(r.delays) <= 3
           /\ r.delays = SubSeq(ExpectedDelays, 1, Len(r.delays))
           /\ r.attempts <= Len(r.delays) + 1
           /\ r.status \in {"resolved", "rejected"} /\ r.attempts > 0
                => r.attempts = Len(r.delays) + 1
           /\ r.status = "rejected" /\ r.attempts > 0
                => r.error \notin TransientMessages \/ Len(r.delays) = 3
           /\ r.status = "rejected" /\ r.error \in ErrorMessages
                /\ r.error \notin TransientMessages
                /\ r.attempts = 1
                => r.delays = <<>>
           /\ r.status = "resolved" /\ r.attempts = 3
                => r.delays = <<1000, 2000>>
  /\ \A i \in 1..Len(loops) :
       loops[i].pc = "backoff"
         => requests[loops[i].req].error \in TransientMessages

C6_Witness ==
  \E id, other \in 1..Len(requests) :
    /\ requests[id].status = "resolved"
    /\ requests[id].attempts = 3
    /\ requests[id].delays = <<1000, 2000>>
    /\ requests[other].status = "rejected"
    /\ requests[other].error = Msg401
    /\ requests[other].attempts = 1

\* the rows of the display store that show segment id
Shown(segs, id) == {k \in 1..Len(segs) : segs[k].id = id}

\* C7: every segment handed to the transcription service gets at most one
\* completion update and is flagged isProcessing exactly until that update,
\* so it never returns to isProcessing=true; a SegmentManager segment is
\* completed (final text or error marker) exactly when its request settles;
\* a recorder segment is completed only by a resolved request and is
\* otherwise abandoned: whenever the display store is updated it keeps no
\* processing segment older than the staleness window.
C7_SingleCompletion ==
  [][/\ \A id \in 1..Len(requests') :
          LET r == requests'[id]
              shown == Shown(transcriptSegments', id)
          IN  /\ r.completions <= 1
              /\ id <= Len(requests)
                   => r.completions >= requests[id].completions
              /\ Cardinality(shown) <= 1
              /\ \A k \in shown :
                   transcriptSegments'[k].isProcessing = (r.completions = 0)
              /\ r.owner = "manager" =>
                   /\ id \in DOMAIN segments'
                   /\ segments'[id].isProcessing = (r.completions = 0)
                   /\ (r.status \in {"resolved", "rejected"})
                        = (r.completions = 1)
              /\ r.owner = "recorder" /\ r.completions = 1
                   => r.status = "resolved"
     /\ transcriptSegments' # transcriptSegments =>
          \A k \in 1..Len(transcriptSegments') :
            transcriptSegments'[k].isProcessing
              => now' - transcriptSegments'[k].timestamp < StaleAge]_vars

\* one recorder segment was completed after the staleness window had passed,
\* and the update removed an abandoned one whose request had failed
C7_Witness ==
  \E a, b \in 1..Len(requests) :
    /\ requests[a].owner = "recorder"
    /\ requests[a].status = "rejected"
    /\ requests[a].completions = 0
    /\ Shown(transcriptSegments, a) = {}
    /\ requests[b].completions = 1
    /\ \E k \in Shown(transcriptSegments, b) :
         ~transcriptSegments[k].isProcessing
    /\ now >= Epoch + StaleAge

C9_StopFreezesSegmentation ==
  [][/\ ~internalIsRecording' =>
          /\ recordingTimer' = NoTimer
          /\ voiceDetectionTimer' = NoTimer
     /\ ~internalIsRecording /\ ~internalIsRecording' => segVars' = segVars
     /\ internalIsRecording /\ ~internalIsRecording' =>
          /\ apiVars' = apiVars
          /\ storeVars' = storeVars
     /\ \A id \in 1..Len(requests) :
          /\ requests[id].owner = "recorder"
          /\ requests'[id].completions > requests[id].completions
          => \E k \in Shown(transcriptSegments', id) :
               /\ ~transcriptSegments'[k].isProcessing
               /\ Len(transcriptSegments'[k].text) > 0]_vars

\* a request sent during the session completed after the stop and is shown
C9_Witness ==
  /\ ~internalIsRecording
  /\ recordingTimer = NoTimer
  /\ \E id \in 1..Len(requests) :
       /\ requests[id].owner = "recorder"
       /\ requests[id].sentToggle = 1
       /\ requests[id].settledToggle = 2
       /\ requests[id].completions = 1
       /\ \E k \in Shown(transcriptSegments, id) :
            ~transcriptSegments[k].isProcessing

\* C10: a dataavailable event whose assembled blob is at most 1000 bytes, or
\* whose data is empty, creates no transcript segment (in the display store
\* or in SegmentManager) and enqueues or starts no transcription request.
C10_SmallBlobDiscarded ==
  [][/\ pendingData # <<>>
     /\ pendingData' = Tail(pendingData)
     /\ \/ Head(pendingData) = 0
        \/ Sum(Append(recordingChunks, Head(pendingData))) <= MinBlobSize
     => /\ apiVars' = apiVars
        /\ transcriptSegments' = transcriptSegments
        /\ segments' = segments
        /\ errorLog' = errorLog]_vars

\* an upload was decided, its buffer was handled, and nothing came of it
C10_Witness ==
  /\ emitted > 0
  /\ pendingData = <<>>
  /\ recordingChunks = <<>>
  /\ requests = <<>>
  /\ transcriptSegments = <<>>

\* C11: a start attempt made while the API key is missing starts nothing:
\* no initialization (and so no microphone request) begins, the media
\* recorder is not started, no interval is created and the component does
\* not enter the recording state; also after an earlier successful
\* initialization.
C11_NoStartWithoutKey ==
  [][/\ toggles' = toggles + 1
     /\ ~settings.openaiApiKey
     /\ ~internalIsRecording
     /\ ~isRecording
     => /\ ~isInitializing'
        /\ mediaRecorder' = mediaRecorder
        /\ ~internalIsRecording'
        /\ ~isRecording'
        /\ timerVars' = timerVars
        /\ segmentTimers' = segmentTimers]_vars

(***************************************************************************)
(* Properties of the VoiceActivityDetector (specification SpecDetector)    *)
(***************************************************************************)
Tenths(applies, w) == IF applies THEN w ELSE 0

\* the decimal sums of the published weights, in tenths
PublishedHuman(features) ==
  Tenths(features.fundamentalEnergy > EnergyUnit \div 100, 3)
  + Tenths(2 * features.formantEnergy
             > 3 * (features.fundamentalEnergy + Epsilon), 4)
  + Tenths(/\ 10 * features.zeroCrossingRate >= NumBins - 1
           /\ 2 * features.zeroCrossingRate <= NumBins - 1, 2)
  + Tenths(/\ 5 * features.spectralCentroid.num > features.spectralCentroid.den
           /\ 5 * features.spectralCentroid.num
                < 3 * features.spectralCentroid.den, 1)

PublishedComputer(features, data) ==
  Tenths(2 * calculateBandEnergy(data, 48, 127)
           > features.shortTimeEnergy + Epsilon, 3)
  + Tenths(10 * features.spectralRolloff > 7 * NumBins, 2)
  + Tenths(features.energyVariation.num
             < (EnergyUnit \div (100 * SteStep))
                 * features.energyVariation.den, 1)

HasReturned == vad.returned # <<>>

Returned == vad.returned[1]

\* C12: for a frame with shortTimeEnergy >= 0.01 the result is human voice
\* exactly when the sum of the published human weights exceeds the sum of
\* the published computer weights and 0.2; otherwise it is computer audio
\* exactly when the computer sum exceeds 0.3; otherwise neither.
C12_DecisionByPublishedSums ==
  (HasReturned /\ Returned.features.shortTimeEnergy >= EnergyUnit \div 100)
    => LET human == PublishedHuman(Returned.features)
           computer == PublishedComputer(Returned.features, vad.frequencyData)
       IN /\ Returned.isHumanVoice = (human > computer /\ human > 2)
          /\ Returned.isComputerAudio
               = (~(human > computer /\ human > 2) /\ computer > 3)

\* C13: an all-zero frame has shortTimeEnergy 0, and every frame with
\* shortTimeEnergy < 0.01 gets the silence result (no voice, no computer
\* audio, confidence 0.9, audioLevel 0) whatever its other features are.
C13_SilencePath ==
  HasReturned =>
    /\ (\A i \in Bins : vad.frequencyData[i] = 0)
         => Returned.features.shortTimeEnergy = 0
    /\ Returned.features.shortTimeEnergy < EnergyUnit \div 100
         => /\ ~Returned.isHumanVoice
            /\ ~Returned.isComputerAudio
            /\ Returned.confidence = <<9, 0>>
            /\ Returned.audioLevel = 0

\* a frame below the silence floor whose other features would score
C13_Witness ==
  /\ HasReturned
  /\ Returned.features.shortTimeEnergy < EnergyUnit \div 100
  /\ Returned.features.shortTimeEnergy > 0
  /\ PublishedHuman(Returned.features) > 2
  /\ Returned.confidence = <<9, 0>>
  /\ Returned.audioLevel = 0

\* C14: every result of detectVoiceActivity has 0 <= confidence <= 1 and
\* 0 <= audioLevel <= 100.
C14_ResultRanges ==
  HasReturned =>
    /\ ~FloatGreater(<<0, 0>>, Returned.confidence)
    /\ ~FloatGreater(Returned.confidence, <<10, 0>>)
    /\ Returned.audioLevel >= 0
    /\ Returned.audioLevel <= 100 * AudioLevelUnit

\* a frame whose scores add up to more than 1 and whose energy times 1000
\* is more than 100
C14_Witness ==
  /\ HasReturned
  /\ PublishedHuman(Returned.features)
       + PublishedComputer(Returned.features, vad.frequencyData) > 10
  /\ Returned.features.shortTimeEnergy > 100 * AudioLevelUnit
  /\ Returned.confidence = <<10, 0>>
  /\ Returned.audioLevel = 100 * AudioLevelUnit

FlatSpectrum(data) == \A i \in Bins : data[i] = data[0]

PureTone150(data) ==
  /\ data[1] = ByteMax
  /\ \A i \in Bins : i > 3 => data[i] = 0

\* C16: a pure-tone frame at 150 Hz (strong fundamental band, weak high
\* frequencies) is classified as human voice with confidence >= 0.5, the
\* fundamentalEnergy > 0.01 rule and the formantRatio > 1.5 rule both
\* triggering.
C16_PureToneIsVoice ==
  (/\ HasReturned
   /\ PureTone150(vad.frequencyData)
   /\ Returned.features.fundamentalEnergy > EnergyUnit \div 100)
    => /\ Returned.isHumanVoice
       /\ ~FloatGreater(<<5, 0>>, Returned.confidence)
       /\ 2 * Returned.features.formantEnergy
            > 3 * (Returned.features.fundamentalEnergy + Epsilon)

\* C17: backgroundNoiseLevel is never negative and never above the largest
\* short-time energy ever pushed into the noise buffer.
C17_NoiseLevelBounded ==
  /\ getBackgroundNoiseLevel(vad) >= 0
  /\ getBackgroundNoiseLevel(vad) <= vad.maxPushed

\* the level has left 0 and lies below a louder frame pushed later
C17_Witness ==
  /\ getBackgroundNoiseLevel(vad) > 0
  /\ getBackgroundNoiseLevel(vad) < vad.maxPushed
  /\ vad.calls >= NoiseBufferSize - 10

\* C18: in every state of the detector, also before the first frame,
\* getAdaptiveThreshold() is max(0.1, getBackgroundNoiseLevel() * 3) and
\* backgroundNoiseLevel is the entry at index floor(0.2 * length) of the
\* sorted noise buffer (0 for an empty buffer).
C18_ThresholdFollowsNoiseLevel ==
  /\ getAdaptiveThreshold(vad)
       = Max(EnergyUnit \div 10, getBackgroundNoiseLevel(vad) * 3)
  /\ getBackgroundNoiseLevel(vad)
       = IF vad.noiseEstimationBuffer = <<>> THEN 0
         ELSE SortedAt(vad.noiseEstimationBuffer,
                       (Len(vad.noiseEstimationBuffer) * 2) \div 10)

\* the running sum of the bins 0..i of the last frame
Cumulative(i) == SumBins(vad.frequencyData, 0, i)

\* C19: the spectral centroid and the spectral rolloff of any frame lie in
\* [0,1]; the centroid is 0 when the total magnitude is 0, and the rolloff
\* is the smallest index, over the length, at which the cumulative
\* magnitude reaches 0.85 of the total.
C19_CentroidAndRolloff ==
  HasReturned =>
    LET centroid == Returned.features.spectralCentroid
        rolloff == Returned.features.spectralRolloff
        total == Cumulative(NumBins - 1)
    IN /\ centroid.den > 0
       /\ 0 <= centroid.num /\ centroid.num <= centroid.den
       /\ total = 0 => centroid.num = 0
       /\ 0 <= rolloff /\ rolloff <= NumBins
       /\ rolloff \in Bins
       /\ 100 * Cumulative(rolloff) >= 85 * total
       /\ \A i \in Bins : i < rolloff => 100 * Cumulative(i) < 85 * total

\* the all-zero frame after a frame with energy
C19_Witness ==
  /\ HasReturned
  /\ vad.maxPushed > 0
  /\ Cumulative(NumBins - 1) = 0
  /\ Returned.features.spectralRolloff = 0
  /\ Returned.features.spectralCentroid.num = 0

\* C20: while updateNoiseEstimate has not been called with isVoice=false
\* since the construction or the last reset(), whatever the number of calls
\* with isVoice=true, suppress returns its argument.
C20_PassThroughBeforeNoiseEstimate ==
  [][(/\ subtraction'.suppressCalls = subtraction.suppressCalls + 1
      /\ subtraction.silenceUpdates = 0)
       => subtraction'.returned = subtraction'.argument]_vars

\* suppress passes a spectrum through after a reset that discarded a noise
\* estimate under which it would have been changed
C20_Witness ==
  /\ subtraction.suppressCalls > 0
  /\ subtraction.suppressedAfter > 0
  /\ subtraction.silenceUpdates = 0
  /\ subtraction.returned = subtraction.argument
  /\ \E i \in 1 .. spectrumSize : subtraction.argument[1][i] > 0

\* C21: the noise spectrum changes only on silence frames. A call of
\* updateNoiseEstimate or processSignal with the voice flag true leaves the
\* noise spectrum and the initialized flag as they were; on an enabled
\* processor the first silence frame is copied into the estimate and every
\* later one moves it by 0.95 * estimate + 0.05 * frame; processSignal
\* returns its spectrum untouched unless the voice flag is true, and a
\* disabled processor passes every frame through and estimates nothing.
C21_NoiseEstimateOnlyOnSilence ==
  [][LET voiceUpdate ==
           subtraction'.voiceUpdates = subtraction.voiceUpdates + 1
         signal == processor'.signals = processor.signals + 1
         isVoice == processor'.isVoice[1]
         spectrum == processor'.argument[1]
         kept ==
           /\ subtraction'.noiseSpectrum = subtraction.noiseSpectrum
           /\ subtraction'.isInitialized = subtraction.isInitialized
     IN /\ voiceUpdate => kept
        /\ signal =>
             /\ isVoice \/ ~processor.enabled => kept
             /\ ~isVoice \/ ~processor.enabled =>
                  processor'.returned = processor'.argument
             /\ ~isVoice /\ processor.enabled =>
                  /\ subtraction'.isInitialized
                  /\ \A i \in 1 .. spectrumSize :
                       subtraction'.noiseSpectrum[i] =
                         IF ~subtraction.isInitialized THEN spectrum[i]
                         ELSE (subtraction.noiseSpectrum[i] \div 20) * 19
                              + spectrum[i] \div 20]_vars

\* only processSignal was called, on an enabled processor: the second
\* silence frame has moved the estimate off the first and came back as is
C21_Witness ==
  /\ subtraction.calls = 0
  /\ processor.calls = processor.signals
  /\ subtraction.silenceUpdates = 2
  /\ processor.isVoice = <<FALSE>>
  /\ subtraction.isInitialized
  /\ \E i \in 1 .. spectrumSize :
       /\ subtraction.noiseSpectrum[i] \notin Magnitudes
       /\ subtraction.noiseSpectrum[i] # processor.argument[1][i]
  /\ processor.returned = processor.argument

\* C32: what processSignal returns and the state it leaves in the spectral
\* subtraction do not depend on the time signal or on the noise level: the
\* same call made with any other time signal and any other noise level
\* returns the same spectrum and leaves the same subtraction state.
C32_TimeSignalAndNoiseLevelIgnored ==
  [][processor'.signals = processor.signals + 1 =>
       \A timeSignal \in TimeSignals, noiseLevel \in NoiseLevels :
         LET other == processSignalOn(subtraction, processor,
                                      processor'.argument[1], timeSignal,
                                      processor'.isVoice[1], noiseLevel)
         IN  /\ other.processor.returned = processor'.returned
             /\ other.subtraction = subtraction']_vars

\* a voice frame was suppressed (the spectrum returned is not the one
\* handed in) in a call whose time signal the denoiser changed
C32_Witness ==
  /\ processor.signals > 0
  /\ processor.enabled
  /\ processor.isVoice = <<TRUE>>
  /\ processor.returned # processor.argument
  /\ processor.denoised = <<-100, 0>>
  /\ processor.threshold = 300

\* the segments a store shows, their positions apart
Content(segs) == {segs[k] : k \in 1 .. Len(segs)}

\* C22: both stores are keyed by id. No store holds two entries with one
\* id; a handleNewSegment call repeated with the same segment leaves the
\* store as the first call left it (but for the stale placeholders the
\* later instant drops); two completions of different segments delivered
\* in the other order give every id the same content; segments.set of the
\* manager is idempotent and commutes across ids.
C22_StoresKeyedById ==
  LET n == IF bound.path = "recorder" THEN Len(applied) ELSE 0
      segs == transcriptSegments
  IN /\ \A i, j \in 1 .. Len(segs) : segs[i].id = segs[j].id => i = j
     /\ n >= 2 /\ applied[n].segment = applied[n - 1].segment =>
          segs = CleanStale(applied[n].before, applied[n].time)
     /\ (/\ n >= 2
         /\ ~applied[n].segment.isProcessing
         /\ ~applied[n - 1].segment.isProcessing
         /\ applied[n].segment.id # applied[n - 1].segment.id) =>
          Content(segs) =
            Content(handleNewSegment(
                      handleNewSegment(applied[n - 1].before,
                                       applied[n].segment,
                                       applied[n - 1].time),
                      applied[n - 1].segment, applied[n].time))
     /\ \A id \in DOMAIN segments : segments[id].id = id
     /\ \A a, b \in Updates :
          /\ SegmentsSet(SegmentsSet(segments, a), a)
               = SegmentsSet(segments, a)
          /\ a.id # b.id =>
               SegmentsSet(SegmentsSet(segments, a), b)
                 = SegmentsSet(SegmentsSet(segments, b), a)

\* a placeholder delivered twice, then the completion of the other segment
\* before the completion of the first: one entry per id, both completed
C22_Witness ==
  /\ bound.path = "recorder"
  /\ Len(applied) = 4
  /\ applied[1].segment = applied[2].segment
  /\ applied[1].segment.isProcessing
  /\ ~applied[3].segment.isProcessing
  /\ ~applied[4].segment.isProcessing
  /\ applied[4].segment.id = applied[1].segment.id
  /\ applied[3].segment.id # applied[1].segment.id
  /\ Len(transcriptSegments) = 2
  /\ \A k \in 1 .. 2 : ~transcriptSegments[k].isProcessing

\* the lines of an exported text: the inverse of join('\n'), no line for
\* the empty text
RECURSIVE SplitLines(_, _)
SplitLines(text, line) ==
  IF text = <<>> THEN <<line>>
  ELSE IF Head(text) = "\n" THEN <<line>> \o SplitLines(Tail(text), <<>>)
  ELSE SplitLines(Tail(text), Append(line, Head(text)))

ParseTranscript(text) == IF text = <<>> THEN <<>> ELSE SplitLines(text, <<>>)

\* the texts of the completed segments of the Map, by ascending timestamp
CompletedTexts ==
  LET ids == {id \in DOMAIN segments : ~segments[id].isProcessing}
      rank(id) == Cardinality({other \in ids : segments[other].timestamp
                                                 < segments[id].timestamp})
  IN [k \in 1 .. Cardinality(ids) |->
        segments[CHOOSE id \in ids : rank(id) = k - 1].text]

\* C23: the text export of the manager's store, parsed back into lines,
\* gives the texts of the segments in ascending timestamp order, whatever
\* the order in which the segments were stored.
C23_ExportRoundTrip ==
  bound.path = "manager" =>
    ParseTranscript(exportTranscript(segments, applied)) = CompletedTexts

\* C24: a request is taken from the queue and sent no sooner than 200 ms
\* after the last fetch of every request sent before it has returned,
\* whether that request was resolved or rejected.
C24_QueueSpacing ==
  [][Len(startOrder') > Len(startOrder) =>
       \A id \in 1 .. Len(requests) :
         (/\ requests[id].attempts > 0
          /\ requests[id].status \in {"resolved", "rejected"})
           => now - requests[id].endedAt >= 200]_vars

\* the second request has just been sent, 200 ms after the first failed
C24_Witness ==
  /\ Len(startOrder) = 2
  /\ requests[startOrder[1]].status = "rejected"
  /\ requests[startOrder[1]].attempts > 0
  /\ requests[startOrder[2]].status = "active"
  /\ requests[startOrder[2]].attempts = 1
  /\ now = requests[startOrder[1]].endedAt + 200

\* C33: in every state of a recording session a ready segment has reached
\* the segment duration, and the three counters are ordered:
\* segmentRecordingTime <= activeRecordingTime <= totalRecordingTime.
C33_CountersOrdered ==
  /\ isSegmentReady => segmentRecordingTime >= settings.segmentDuration
  /\ segmentRecordingTime <= activeRecordingTime
  /\ activeRecordingTime <= totalRecordingTime

\* a segment is ready and waits for the pause, in a session whose first
\* second passed without voice
C33_Witness ==
  /\ internalIsRecording
  /\ isSegmentReady
  /\ ~isVoiceActive
  /\ segmentRecordingTime = settings.segmentDuration
  /\ activeRecordingTime < totalRecordingTime

\* C35: whenever handleSmartSegmentation resets the segment state for an
\* emission, the media recorder was recording and is stopped in that step,
\* which hands its buffer to the dataavailable handler.
C35_ResetOnlyWithHandoff ==
  [][(bound.path = "recorder" /\ emitted' # emitted) =>
       /\ mediaRecorder = "recording"
       /\ mediaRecorder' = "inactive"
       /\ Len(pendingData') = Len(pendingData) + 1]_vars

\* C36: when the restart callback scheduled by uploadCurrentSegment runs
\* in a recording session, the recorder is inactive: start() is never
\* called on a recorder that a later startRecording has already started,
\* and the chunks of that later session are not cleared.
C36_RestartOnlyWhenInactive ==
  [][(/\ bound.path = "recorder"
      /\ restartTimers' # restartTimers
      /\ restartTimers' \subseteq restartTimers
      /\ internalIsRecording
      /\ mediaRecorder # "null")
       => mediaRecorder = "inactive"]_vars

\* C37: at most one per-second interval and at most one detection interval
\* are registered at any time, and none while the component is not
\* recording: no interval runs on whose handle no timer variable holds.
ActiveIntervals(timer, orphans) ==
  orphans + (IF timer # NoTimer THEN 1 ELSE 0)

C37_NoTimerLeak ==
  LET perSecond ==
        ActiveIntervals(recordingTimer, orphanTimers.recordingTimer)
      detection ==
        ActiveIntervals(voiceDetectionTimer, orphanTimers.voiceDetectionTimer)
  IN  /\ perSecond <= 1
      /\ detection <= 1
      /\ ~internalIsRecording => perSecond = 0 /\ detection = 0

\* C38: when every fetch returns and every delay elapses, each request
\* passed to transcribe() is eventually settled (resolved, rejected with
\* its error, or rejected as cancelled by clearQueue), a settled request
\* is never settled again, and the queue is never non-empty while
\* isProcessing is false and no processQueue loop runs.
Settled(id) ==
  /\ id \in 1..Len(requests)
  /\ requests[id].status \in {"resolved", "rejected"}

C38_EveryPromiseSettledOnce ==
  /\ \A id \in 1..MaxFairRequests : (id <= Len(requests)) ~> Settled(id)
  /\ [][\A id \in 1..Len(requests) :
          Settled(id) => requests'[id] = requests[id]]_vars
  /\ [](~(Len(requestQueue) > 0 /\ ~isProcessing /\ loops = <<>>))

\* a request pushed during the trailing delay of the loop has been resolved,
\* another was rejected by the server and a third cancelled by clearQueue
C38_Witness ==
  /\ bound.script = "stages"
  /\ \E id \in 1..Len(requests) :
        /\ requests[id].pushedAt = "trailing"
        /\ requests[id].status = "resolved"
  /\ \E id \in 1..Len(requests) :
        /\ requests[id].status = "rejected"
        /\ requests[id].error = MsgCancelled

\* C39: once SegmentManager.dispose() has returned, the segment store
\* stays empty and no further onSegmentUpdate or onError is delivered,
\* whatever was queued or in flight when dispose was called.
C39_SilentAfterDispose ==
  [][(bound.path = "manager" /\ disposed) =>
       /\ segments' = <<>>
       /\ errorLog' = errorLog
       /\ \A id \in 1..Len(requests) :
             requests'[id].completions = requests[id].completions]_vars

\* C31: after every handleNewSegment call the display store holds no
\* segment that is still processing and older than 30 s, and every segment
\* that is not processing is still there: those the store held before the
\* call (the one the call replaces apart) and the call's own segment.
C31_StaleCleanup ==
  [][(bound.path = "recorder" /\ Len(applied') > Len(applied)) =>
       LET call == applied'[Len(applied')]
           after == transcriptSegments'
           In(s) == \E i \in 1 .. Len(after) : after[i] = s
       IN  /\ \A i \in 1 .. Len(after) :
                after[i].isProcessing =>
                  call.time - after[i].timestamp <= 30000
           /\ \A j \in 1 .. Len(call.before) :
                (/\ ~call.before[j].isProcessing
                 /\ call.before[j].id # call.segment.id)
                  => In(call.before[j])
           /\ ~call.segment.isProcessing => In(call.segment)]_vars

\* the last call found a processing segment older than 30 s next to a
\* completed one that is older still: the first is gone, the second stayed
C31_Witness ==
  /\ bound.path = "recorder"
  /\ Len(applied) > 0
  /\ LET call == applied[Len(applied)]
     IN  /\ \E j \in 1 .. Len(call.before) :
              /\ call.before[j].isProcessing
              /\ call.before[j].id # call.segment.id
              /\ call.time - call.before[j].timestamp > 30000
              /\ \A i \in 1 .. Len(transcriptSegments) :
                   transcriptSegments[i].id # call.before[j].id
         /\ \E i \in 1 .. Len(transcriptSegments) :
              /\ ~transcriptSegments[i].isProcessing
              /\ call.time - transcriptSegments[i].timestamp > 30000

\* C27: no segment is handed to transcription with less active speech in
\* it than the configured minimum segment duration. The recorder hands a
\* segment over by stopping the MediaRecorder, whose data arrives in the
\* dataavailable handler; the premise is a step that stops the recorder on
\* a blob large enough to pass the handler's size check, in the recorder
\* component, and segmentRecordingTime is the active speech counted for
\* that segment.
C27_MinimumSegmentDuration ==
  [][(/\ bound.path = "recorder"
      /\ Len(pendingData') > Len(pendingData)
      /\ PassesSizeFilter(pendingData'[Len(pendingData')]))
       => segmentRecordingTime >= DEFAULT_SETTINGS.minSegmentDuration]_vars

\* C30: a per-second tick (the step that reschedules the recording timer)
\* adds 1 to totalRecordingTime; it adds 1 to activeRecordingTime and to
\* segmentRecordingTime when voice is active and leaves both as they were
\* otherwise; isSegmentReady becomes true when voice is active, the
\* incremented segmentRecordingTime has reached segmentDuration and the
\* flag was false, and keeps its value in every other case.
C30_SecondTickCounters ==
  [][(recordingTimer # NoTimer
      /\ recordingTimer' = recordingTimer + SecondPeriod) =>
       /\ totalRecordingTime' = totalRecordingTime + 1
       /\ activeRecordingTime' =
            activeRecordingTime + (IF isVoiceActive THEN 1 ELSE 0)
       /\ segmentRecordingTime' =
            segmentRecordingTime + (IF isVoiceActive THEN 1 ELSE 0)
       /\ isSegmentReady' =
            IF /\ isVoiceActive
               /\ segmentRecordingTime' >= settings.segmentDuration
               /\ ~isSegmentReady
            THEN TRUE ELSE isSegmentReady]_vars

\* a tick under active voice has just brought the segment to its duration
\* and marked it ready, after ticks that passed without voice
C30_Witness ==
  /\ isVoiceActive
  /\ isSegmentReady
  /\ segmentRecordingTime = settings.segmentDuration
  /\ activeRecordingTime = segmentRecordingTime
  /\ totalRecordingTime > activeRecordingTime

(***************************************************************************)
(* Properties of the recording sessions (specification SpecSession)        *)
(***************************************************************************)
\* C25: the detector's histories are not shared across sessions. When a
\* session starts, the energy history is empty, there is no previous
\* spectrum and the noise-estimation buffer is as the constructor left it.
C25_NoHistoryAcrossSessions ==
  [][(~internalIsRecording /\ internalIsRecording') =>
       /\ vad'.energyHistory = <<>>
       /\ vad'.previousSpectrum = NoSpectrum
       /\ vad'.noiseEstimationBuffer = NewDetector.noiseEstimationBuffer]_vars

\* C26: a detection tick whose feature extraction or classification fails
\* counts as "no voice this tick" (voice is inactive after it), and the
\* session keeps running: recording is not stopped and the next detection
\* tick stays scheduled.
C26_FailedTickIsNoVoice ==
  [][vad'.failures = vad.failures + 1 =>
       /\ ~isVoiceActive'
       /\ internalIsRecording' = internalIsRecording
       /\ voiceDetectionTimer' # NoTimer]_vars

\* C29: after every detection tick that returned a result, isVoiceActive
\* is that tick's voiceDetected: the result is human voice, its confidence
\* is above 0.3 and its audio level above 20. A result that is not human
\* voice (computer audio, neither flag, silence) leaves voice inactive.
C29_VoiceActiveIsVoiceDetected ==
  [][vad'.calls = vad.calls + 1 =>
       LET result == vad'.returned[1]
       IN  /\ isVoiceActive' =
                (/\ result.isHumanVoice
                 /\ FloatGreater(result.confidence, <<3, 0>>)
                 /\ result.audioLevel > 20 * AudioLevelUnit)
           /\ ~result.isHumanVoice => ~isVoiceActive']_vars

\* voice was active, and a tick whose result is human voice with a
\* confidence above 0.3 but an audio level of 20 or less has ended it
C29_Witness ==
  /\ vad.calls = 2
  /\ flips = 2
  /\ ~isVoiceActive
  /\ vad.returned[1].isHumanVoice
  /\ FloatGreater(vad.returned[1].confidence, <<3, 0>>)
  /\ vad.returned[1].audioLevel <= 20 * AudioLevelUnit

(***************************************************************************)
(* Properties of the detector's histories (specification SpecDetector)     *)
(***************************************************************************)
\* C34: no result of classifyAudioType has isHumanVoice and isComputerAudio
\* both true.
C34_FlagsExclusive ==
  vad.returned # <<>> =>
    ~(vad.returned[1].isHumanVoice /\ vad.returned[1].isComputerAudio)

\* a frame whose human score wins although its computer score is above
\* 0.3 on its own: the result is human voice and not computer audio
C34_Witness ==
  /\ vad.returned # <<>>
  /\ vad.returned[1].isHumanVoice
  /\ ~vad.returned[1].isComputerAudio
  /\ FloatGreater(computerAudioScore(vad.returned[1].features,
                                     vad.frequencyData), <<3, 0>>)

\* C28: after every detection tick the energy history holds at most 10
\* samples and the noise-estimation buffer at most 50; both have received
\* the tick's short-time energy as their newest sample, whatever the tick's
\* classification, and once full both have let go of their oldest sample
\* and kept the others in order.
C28_BoundedFifoHistories ==
  [][vad'.calls = vad.calls + 1 =>
       LET e == analyzeSpectrum(vad'.frequencyData).shortTimeEnergy
           h == vad.energyHistory
           n == vad.noiseEstimationBuffer
       IN  /\ Len(vad'.energyHistory) <= 10
           /\ Len(vad'.noiseEstimationBuffer) <= 50
           /\ vad'.energyHistory =
                IF Len(h) < 10 THEN h \o <<e>>
                ELSE SubSeq(h, 2, Len(h)) \o <<e>>
           /\ vad'.noiseEstimationBuffer =
                IF Len(n) < 50 THEN n \o <<e>>
                ELSE SubSeq(n, 2, Len(n)) \o <<e>>]_vars

\* two ticks on a detector with full histories: the last one, on a frame
\* that is not classified as voice, is the newest sample of both, and the
\* samples before it have moved down
C28_Witness ==
  /\ vad.calls = bound.calls
  /\ vad.calls > EnergyHistorySize + MaxCalls
  /\ Len(vad.energyHistory) = 10
  /\ Len(vad.noiseEstimationBuffer) = 50
  /\ ~vad.returned[1].isHumanVoice
  /\ vad.energyHistory[10] > 0
  /\ vad.energyHistory[10] = vad.noiseEstimationBuffer[50]
  /\ vad.energyHistory[9] = vad.noiseEstimationBuffer[49]
  /\ vad.energyHistory[9] # vad.energyHistory[10]

====
